---- MODULE Spec2Model ----
(***************************************************************************)
(* Model of the EAS schema generator of rep-attestation-tools-evm-solidity *)
(* (tasks/generate-eas-object.ts): the external schema cache, the $ref     *)
(* resolver, the effective-type resolver, the ABI type mapper and the      *)
(* schema string builder.                                                  *)
(*                                                                         *)
(* A JSON object is a function from its present keys to their values, so   *)
(* that "key in obj" is "key \in DOMAIN obj" and an absent key reads as    *)
(* undefined.  The value of the key "type" is a record [arr, v]: arr tells *)
(* whether the JSON value is an array of type names, v holds the name(s).  *)
(* A regular-expression subject (pattern) and a $ref are sequences of      *)
(* characters resp. tokens, so that the tests and splits the code performs *)
(* on them are computed rather than assumed.                               *)
(***************************************************************************)
EXTENDS Integers, Sequences, FiniteSets, TLC

VARIABLES
    schemaCache,   \* Map<string, any>: relative path -> parsed document
    readCount,     \* relative path -> number of fs.readFileSync calls made for it
    existsCount,   \* relative path -> number of fs.existsSync calls made for it
    pc,            \* position of the generate-eas-object task: "idle", "loop", "done"
    compiled,      \* number of root properties the runs of this process were given
    inputSchema,   \* the parsed root document of the current run
    keyOrder,      \* for-in enumeration order of inputSchema.properties
    declOrder,     \* order of the property names in the JSON text
    schemaBaseDir, \* directory of the root document of the current run
    idx,           \* number of keys of keyOrder already processed
    abiFields,     \* the entries pushed so far, each [abi, key]
    schemaString,  \* the joined result of the finished run
    trail,         \* per processed key: [key, resolved, kept, failedRef] (observation only)
    loadLog,       \* per call of loadExternalSchema: [path, dir, ret, reads, checks] (observation only)
    pName,         \* pure-function harness: the property name
    pProp,         \* pure-function harness: the property schema
    pEff,          \* pure-function harness: result of resolveJsonType
    pAbi,          \* pure-function harness: result of mapJsonSchemaPropertyToAbiType
    pPc,           \* pure-function harness: "input", "typed", "mapped"
    uidIn,         \* UID harness: two argument lists [schema, resolverAddress, revocable]
    uidOut,        \* UID harness: [eas, bas], the UIDs of either argument list
    uidPc,         \* UID harness: "off", "input", "eas", "done"
    fmtIn,         \* formatSchemaUID harness: the argument
    fmtOut,        \* formatSchemaUID harness: [eas, bas, easTwice, basTwice]
    fmtPc,         \* formatSchemaUID harness: "off", "input", "once", "twice"
    dIn,           \* deploy-eas-schema: [taskArgs, network, privateKey]
    dPc,           \* deploy-eas-schema: "off", "start", "precheck", "sent", "verify", "done"
    dLocals,       \* deploy-eas-schema: the local variables assigned so far
    dCalls,        \* deploy-eas-schema: the arguments of the calls of schemaRegistry.register
    dFiles,        \* deploy-eas-schema: the files written, each [path, content]
    dRet,          \* deploy-eas-schema: how the action ended
    vIn,           \* verify-eas-schema: [taskArgs, network, privateKey]
    vPc,           \* verify-eas-schema: "off", "start", "check", "details", "done"
    vLocals,       \* verify-eas-schema: the local variables assigned so far
    vRet,          \* verify-eas-schema: how the action ended
    rIn,           \* eas-revoke: [taskArgs, network, signer, chain]
    rPc,           \* eas-revoke: "off", "start", "check", "sent", "done"
    rLocals,       \* eas-revoke: the local variables assigned so far
    rCalls,        \* eas-revoke: the arguments of the calls of eas.revoke
    rRet,          \* eas-revoke: how the action ended
    gIn,           \* generate-eas-object: [taskArgs, file]
    gOut,          \* generate-eas-object: the files written, each [path, record]
    gRet,          \* generate-eas-object: how the action ended
    refIn,         \* resolveProperty harness: [prop, dir]
    refOut,        \* resolveProperty harness: [target, result]
    refPc,         \* resolveProperty harness: "off", "input", "target", "done"
    didIn,         \* canonicalizeDID harness: the argument
    didOut,        \* canonicalizeDID harness: [once, twice]
    didPc          \* canonicalizeDID harness: "off", "input", "once", "twice"

genVars == <<schemaCache, readCount, existsCount, pc, compiled, inputSchema, keyOrder,
             declOrder, schemaBaseDir, idx, abiFields, schemaString, trail, loadLog>>
pureVars == <<pName, pProp, pEff, pAbi, pPc>>
uidVars == <<uidIn, uidOut, uidPc>>
fmtVars == <<fmtIn, fmtOut, fmtPc>>
deployVars == <<dIn, dPc, dLocals, dCalls, dFiles, dRet>>
verifyVars == <<vIn, vPc, vLocals, vRet>>
revokeVars == <<rIn, rPc, rLocals, rCalls, rRet>>
chainVars == <<deployVars, verifyVars, revokeVars>>
driverVars == <<gIn, gOut, gRet>>
refVars == <<refIn, refOut, refPc>>
didVars == <<didIn, didOut, didPc>>
helperVars == <<refVars, didVars>>
toolVars == <<uidVars, fmtVars, chainVars, driverVars, helperVars>>
vars == <<genVars, pureVars, toolVars>>

\* ---------------------------------------------------------------- bounds
MaxFields == 2      \* root properties given to the task runs of one process
MaxTypeArr == 2     \* entries of a "type" array
MaxBranches == 2    \* branches over oneOf/anyOf/allOf of one property

\* ---------------------------------------------------------------- values
Undefined == "<undefined>"     \* JS undefined where a string is expected
NullAbi == "<null>"            \* the null result of the ABI mapper
Null == ("<null>" :> TRUE)     \* JS null where an object is expected

Has(obj, k) == k \in DOMAIN obj

Str(t) == [arr |-> FALSE, v |-> <<t>>]
Arr(ts) == [arr |-> TRUE, v |-> ts]

Range(s) == {s[i] : i \in 1..Len(s)}

SeqsUpTo(S, n) == UNION {[1..k -> S] : k \in 0..n}

\* String.prototype.toLowerCase over the type names the model uses.
toLowerCase(s) ==
    CASE s = "String" -> "string"
      [] s = "OBJECT" -> "object"
      [] s = "Array" -> "array"
      [] OTHER -> s

MapLower(ts) == [i \in 1..Len(ts) |-> toLowerCase(ts[i])]

\* ---------------------------------------------------------------- type resolver
order == <<"object", "array", "string", "integer", "number", "boolean">>

\* types.find(t => t !== "null") || types[0]
FirstNonNullOrFirst(types) ==
    IF Len(types) = 0 THEN Undefined
    ELSE IF \E i \in 1..Len(types) : types[i] # "null"
         THEN types[CHOOSE i \in 1..Len(types) :
                        /\ types[i] # "null"
                        /\ \A j \in 1..(i-1) : types[j] = "null"]
         ELSE types[1]

pickPriorityType_listOrder(types) ==
    IF Len(types) = 0 THEN Undefined
    ELSE IF \E i \in 1..Len(types) : types[i] \in Range(order)
         THEN types[CHOOSE i \in 1..Len(types) :
                        /\ types[i] \in Range(order)
                        /\ \A j \in 1..(i-1) : types[j] \notin Range(order)]
         ELSE types[1]

pickPriorityType(types) ==
    IF Len(types) = 0 THEN Undefined
    ELSE IF \E k \in 1..Len(order) : order[k] \in Range(types)
         THEN order[CHOOSE k \in 1..Len(order) :
                        /\ order[k] \in Range(types)
                        /\ \A j \in 1..(k-1) : order[j] \notin Range(types)]
         ELSE types[1]

\* The types one property object contributes: its string type, or every
\* entry of its array type.
OwnTypes(p) == IF Has(p, "type") THEN p["type"].v ELSE <<>>

RECURSIVE PropsTypes(_)
PropsTypes(ps) ==
    IF ps = <<>> THEN <<>> ELSE OwnTypes(Head(ps)) \o PropsTypes(Tail(ps))

\* What one branch b pushes to out: b.type, then the types of
\* Object.values(b.then.properties), then those of b.else.properties.
BranchTypes(b) ==
    OwnTypes(b)
    \o (IF Has(b, "then") THEN PropsTypes(b["then"]) ELSE <<>>)
    \o (IF Has(b, "else") THEN PropsTypes(b["else"]) ELSE <<>>)

RECURSIVE CollectFrom(_)
CollectFrom(bs) ==
    IF bs = <<>> THEN <<>> ELSE BranchTypes(Head(bs)) \o CollectFrom(Tail(bs))

Branches_noAllOf(s) ==
    (IF Has(s, "oneOf") THEN s["oneOf"] ELSE <<>>)
    \o (IF Has(s, "anyOf") THEN s["anyOf"] ELSE <<>>)

Branches(s) ==
    (IF Has(s, "oneOf") THEN s["oneOf"] ELSE <<>>)
    \o (IF Has(s, "anyOf") THEN s["anyOf"] ELSE <<>>)
    \o (IF Has(s, "allOf") THEN s["allOf"] ELSE <<>>)

collectTypesFromBranches(s) == CollectFrom(Branches(s))

resolveJsonType(propSchema) ==
    IF propSchema = Null THEN Undefined
    ELSE IF Has(propSchema, "type") /\ ~propSchema["type"].arr
         THEN toLowerCase(propSchema["type"].v[1])
    ELSE IF Has(propSchema, "type")
         THEN pickPriorityType(MapLower(propSchema["type"].v))
    ELSE LET branchTypes == MapLower(collectTypesFromBranches(propSchema))
         IN  IF Len(branchTypes) > 0 THEN pickPriorityType(branchTypes)
             ELSE Undefined

\* ---------------------------------------------------------------- scalar mapper
HexRunLen == 64
HexChars == {"0","1","2","3","4","5","6","7","8","9",
             "a","b","c","d","e","f","A","B","C","D","E","F"}

\* /0x[a-fA-F0-9]{64}/.test(s): s, a sequence of characters, contains the
\* two characters 0x directly followed by HexRunLen hexadecimal digits.
TestHexHash(s) ==
    \E i \in 1..Len(s) :
        /\ i + 1 + HexRunLen <= Len(s)
        /\ s[i] = "0"
        /\ s[i+1] = "x"
        /\ \A j \in 1..HexRunLen : s[i+1+j] \in HexChars

\* The test a mapper would make if it compared the pattern with the
\* documented hash pattern text.
HashPatternText ==
    <<"^","0","x","[","a","-","f","A","-","F","0","-","9","]","{","6","4","}","$">>

GetPattern(p) == IF Has(p, "pattern") THEN p["pattern"] ELSE <<>>
GetXAbi(p) == IF Has(p, "x-oma3-abi") THEN p["x-oma3-abi"] ELSE Undefined
GetSkipReason(p) ==
    IF Has(p, "x-oma3-skip-reason") THEN p["x-oma3-skip-reason"] ELSE Undefined

ScalarTable_nullDefault(t, pattern) ==
    CASE t = "object" -> "string"
      [] t = "string" -> IF pattern # <<>> /\ TestHexHash(pattern)
                         THEN "bytes32" ELSE "string"
      [] t \in {"integer", "number"} -> "uint256"
      [] t = "boolean" -> "bool"
      [] OTHER -> NullAbi

\* The switch of jsonTypeToAbi, below the ABI hint.
ScalarTable(t, pattern) ==
    CASE t = "object" -> "string"
      [] t = "string" -> IF pattern # <<>> /\ TestHexHash(pattern)
                         THEN "bytes32" ELSE "string"
      [] t \in {"integer", "number"} -> "uint256"
      [] t = "boolean" -> "bool"
      [] OTHER -> "string"

jsonTypeToAbi_hintLast(effectiveType, ctx) ==
    LET r == ScalarTable(toLowerCase(effectiveType), ctx.pattern)
    IN  IF r = "string" /\ ctx.xAbi = "bytes32" THEN "bytes32" ELSE r

jsonTypeToAbi(effectiveType, ctx) ==
    IF ctx.xAbi = "bytes32" THEN "bytes32"
    ELSE ScalarTable(toLowerCase(effectiveType), ctx.pattern)

\* ---------------------------------------------------------------- file system
\* path.resolve(baseDir, schemaPath) for a relative schemaPath.
Resolve(baseDir, schemaPath) == <<baseDir, schemaPath>>

ProofDef == [type |-> Str("object")]
HashDef == [type |-> Str("string"), pattern |-> HashPatternText]
TagsDef == [type |-> Str("array"), items |-> [type |-> Str("string")]]
MetaDef == ("type" :> Str("string")) @@ ("x-oma3-skip-reason" :> "metadata")

CommonDocA == ("$defs" :> [Proof |-> ProofDef, Meta |-> MetaDef, Tags |-> TagsDef])
CommonDocB == ("$defs" :> [Proof |-> [type |-> Str("integer")], Meta |-> MetaDef])

\* The files of the two schema directories: a shared definitions file that
\* differs between the directories, a file that is not valid JSON and, in
\* dirB only, a file that dirA lacks.
File(fullPath) ==
    CASE fullPath = <<"dirA", "common.schema.json">> ->
             [exists |-> TRUE, valid |-> TRUE, doc |-> CommonDocA]
      [] fullPath = <<"dirB", "common.schema.json">> ->
             [exists |-> TRUE, valid |-> TRUE, doc |-> CommonDocB]
      [] fullPath[2] = "broken.json" ->
             [exists |-> TRUE, valid |-> FALSE, doc |-> Null]
      [] fullPath = <<"dirB", "extra.json">> ->
             [exists |-> TRUE, valid |-> TRUE, doc |-> CommonDocA]
      [] OTHER -> [exists |-> FALSE, valid |-> FALSE, doc |-> Null]

RelPaths == {"common.schema.json", "broken.json", "extra.json", "missing.json"}
BaseDirs == {"dirA", "dirB"}

Bump(f, k) == [f EXCEPT ![k] = @ + 1]

\* ---------------------------------------------------------------- loader
ReadAndParse_cachesFailure(w, schemaPath, f) ==
    IF ~f.exists
    THEN [ret |-> Null, w |-> [w EXCEPT !.exists = Bump(@, schemaPath),
                                       !.cache = (schemaPath :> Null) @@ @]]
    ELSE [ret |-> f.doc,
          w |-> [w EXCEPT !.exists = Bump(@, schemaPath),
                          !.reads = Bump(@, schemaPath),
                          !.cache = (schemaPath :> f.doc) @@ @]]

\* The operators below thread the process state they touch as a record
\* w = [cache, reads, exists, log] and return it with their result.
\* loadExternalSchema below the cache lookup: f is the file at the full
\* path.
ReadAndParse(w, schemaPath, f) ==
    IF ~f.exists THEN [ret |-> Null, w |-> [w EXCEPT !.exists = Bump(@, schemaPath)]]
    ELSE IF ~f.valid
         THEN [ret |-> Null,
               w |-> [w EXCEPT !.exists = Bump(@, schemaPath),
                               !.reads = Bump(@, schemaPath)]]
    ELSE [ret |-> f.doc,
          w |-> [w EXCEPT !.exists = Bump(@, schemaPath),
                          !.reads = Bump(@, schemaPath),
                          !.cache = (schemaPath :> f.doc) @@ @]]

\* The call of loadExternalSchema that started in w0 and ended as r, noted
\* in the log with the numbers of fs.readFileSync and fs.existsSync calls
\* it made.
Logged(r, schemaPath, baseDir, w0) ==
    [ret |-> r.ret,
     w |-> [r.w EXCEPT !.log =
               Append(@, [path |-> schemaPath, dir |-> baseDir, ret |-> r.ret,
                          reads |-> r.w.reads[schemaPath] - w0.reads[schemaPath],
                          checks |-> r.w.exists[schemaPath] - w0.exists[schemaPath]])]]

loadExternalSchema_noLookup(w, schemaPath, baseDir) ==
    Logged(ReadAndParse(w, schemaPath, File(Resolve(baseDir, schemaPath))),
           schemaPath, baseDir, w)

loadExternalSchema_checksFirst(w, schemaPath, baseDir) ==
    IF schemaPath \in DOMAIN w.cache /\ File(Resolve(baseDir, schemaPath)).exists
    THEN Logged([ret |-> w.cache[schemaPath],
                 w |-> [w EXCEPT !.exists = Bump(@, schemaPath)]], schemaPath, baseDir, w)
    ELSE Logged(ReadAndParse(w, schemaPath, File(Resolve(baseDir, schemaPath))),
                schemaPath, baseDir, w)

loadExternalSchema(w, schemaPath, baseDir) ==
    IF schemaPath \in DOMAIN w.cache
    THEN Logged([ret |-> w.cache[schemaPath], w |-> w], schemaPath, baseDir, w)
    ELSE Logged(ReadAndParse(w, schemaPath, File(Resolve(baseDir, schemaPath))),
                schemaPath, baseDir, w)

\* ---------------------------------------------------------------- $ref resolver
\* A $ref is a sequence of tokens: "#", "/" and names free of both.
RECURSIVE Join(_)
Join(tokens) == IF tokens = <<>> THEN "" ELSE Head(tokens) \o Join(Tail(tokens))

FirstIndex(s, sep) ==
    IF \E i \in 1..Len(s) : s[i] = sep
    THEN CHOOSE i \in 1..Len(s) : s[i] = sep /\ \A j \in 1..(i-1) : s[j] # sep
    ELSE 0

\* String.prototype.split(sep): the segments between the separators.
RECURSIVE Split(_, _)
Split(s, sep) ==
    LET i == FirstIndex(s, sep)
    IN  IF i = 0 THEN <<s>>
        ELSE <<SubSeq(s, 1, i-1)>> \o Split(SubSeq(s, i+1, Len(s)), sep)

RECURSIVE Walk(_, _)
Walk(current, pathParts) ==
    IF pathParts = <<>> THEN current
    ELSE LET part == Join(Head(pathParts))
         IN  IF current # Null /\ part \in DOMAIN current
             THEN Walk(current[part], Tail(pathParts))
             ELSE Null

\* The part of resolveRef below the choice of the target document: loaded
\* is the target (and the process state the load left), pointer the
\* fragment to resolve in it.
ResolvePointer(loaded, pointer) ==
    IF loaded.ret = Null THEN [ret |-> Null, w |-> loaded.w]
    ELSE IF ~(Len(pointer) >= 2 /\ pointer[1] = "#" /\ pointer[2] = "/")
         THEN [ret |-> Null, w |-> loaded.w]
    ELSE [ret |-> Walk(loaded.ret, Split(SubSeq(pointer, 3, Len(pointer)), "/")),
          w |-> loaded.w]

IsExternal(ref) == FirstIndex(ref, "#") # 0 /\ ref[1] # "#"

resolveRef(w, ref, currentSchema, baseDir) ==
    IF ref = <<>> THEN [ret |-> Null, w |-> w]
    ELSE IF IsExternal(ref)
         THEN ResolvePointer(loadExternalSchema(w, Join(Split(ref, "#")[1]), baseDir),
                             <<"#">> \o Split(ref, "#")[2])
         ELSE ResolvePointer([ret |-> currentSchema, w |-> w], ref)

HasRef(prop) == Has(prop, "$ref") /\ prop["$ref"] # <<>>

Merge_resolvedWins(resolved, prop) ==
    LET localKeys == DOMAIN prop \ {"$ref"}
    IN  [k \in DOMAIN resolved \cup localKeys |->
            IF k \in DOMAIN resolved THEN resolved[k] ELSE prop[k]]

\* { ...resolved, ...localProps } with localProps the prop without its $ref.
Merge(resolved, prop) ==
    LET localKeys == DOMAIN prop \ {"$ref"}
    IN  [k \in DOMAIN resolved \cup localKeys |->
            IF k \in localKeys THEN prop[k] ELSE resolved[k]]

\* The part of resolveProperty below the call of resolveRef, whose result
\* is r.
MergeResolved(r, prop) ==
    IF r.ret # Null
    THEN [ret |-> Merge(r.ret, prop), w |-> r.w, failed |-> FALSE]
    ELSE [ret |-> prop, w |-> r.w, failed |-> TRUE]

resolveProperty(w, prop, currentSchema, baseDir) ==
    IF prop = Null THEN [ret |-> prop, w |-> w, failed |-> FALSE]
    ELSE IF HasRef(prop)
         THEN MergeResolved(resolveRef(w, prop["$ref"], currentSchema, baseDir), prop)
    ELSE [ret |-> prop, w |-> w, failed |-> FALSE]

\* ---------------------------------------------------------------- ABI mapper
\* resolvedItems.type.find(t => t !== "null") || resolvedItems.type[0], resp.
\* resolvedItems.type, taken when resolveJsonType found no item type.
DirectItemType(resolvedItems) ==
    IF ~Has(resolvedItems, "type") THEN Undefined
    ELSE LET ty == resolvedItems["type"]
         IN  IF ~ty.arr THEN ty.v[1]
             ELSE IF Len(ty.v) = 0 THEN Undefined
             ELSE FirstNonNullOrFirst(ty.v)

\* The switch over the item type of an array property.
ItemTable(itemType) ==
    CASE itemType = "string" -> "string[]"
      [] itemType \in {"integer", "number"} -> "uint256[]"
      [] itemType = "boolean" -> "bool[]"
      [] itemType = "object" -> "string[]"
      [] OTHER -> NullAbi

Truthy(str) == str # Undefined /\ str # ""

\* The item type of an array property, from its resolved items.
ItemType(resolvedItems) ==
    IF Truthy(resolveJsonType(resolvedItems))
    THEN resolveJsonType(resolvedItems)
    ELSE DirectItemType(resolvedItems)

\* The array branch below the resolution of the items, whose result is r.
MapItems(r) ==
    IF Truthy(ItemType(r.ret))
    THEN [abi |-> ItemTable(toLowerCase(ItemType(r.ret))), w |-> r.w]
    ELSE [abi |-> NullAbi, w |-> r.w]

ArrayBranch(w, jsonProperty, currentSchema, baseDir) ==
    IF ~Has(jsonProperty, "items") THEN [abi |-> NullAbi, w |-> w]
    ELSE IF HasRef(jsonProperty["items"]) /\ baseDir # ""
         THEN MapItems(resolveProperty(w, jsonProperty["items"], currentSchema, baseDir))
         ELSE MapItems([ret |-> jsonProperty["items"], w |-> w, failed |-> FALSE])

ScalarBranch(jsonProperty, propName, effectiveType) ==
    jsonTypeToAbi(effectiveType,
                  [propName |-> propName, pattern |-> GetPattern(jsonProperty),
                   xAbi |-> GetXAbi(jsonProperty)])

\* mapJsonSchemaPropertyToAbiType below its first line.
MapByType(w, jsonProperty, propName, currentSchema, baseDir) ==
    IF resolveJsonType(jsonProperty) = "array"
    THEN ArrayBranch(w, jsonProperty, currentSchema, baseDir)
    ELSE [abi |-> ScalarBranch(jsonProperty, propName, resolveJsonType(jsonProperty)),
          w |-> w]

mapJsonSchemaPropertyToAbiType_noPurpose(w, jsonProperty, propName, currentSchema, baseDir) ==
    MapByType(w, jsonProperty, propName, currentSchema, baseDir)

mapJsonSchemaPropertyToAbiType(w, jsonProperty, propName, currentSchema, baseDir) ==
    IF propName = "purpose" THEN [abi |-> "string", w |-> w]
    ELSE MapByType(w, jsonProperty, propName, currentSchema, baseDir)

\* ---------------------------------------------------------------- builder
\* Property names that are canonical array indices, with their values: an
\* object lists these keys first, in ascending numeric order, and the other
\* keys after them in insertion order (OrdinaryOwnPropertyKeys).
IndexValue == ("1" :> 1) @@ ("2" :> 2)
IsIndexKey(k) == k \in DOMAIN IndexValue

RECURSIVE SortedIndexKeys(_)
SortedIndexKeys(ks) ==
    IF ks = {} THEN <<>>
    ELSE LET m == CHOOSE k \in ks : \A o \in ks : IndexValue[k] <= IndexValue[o]
         IN  <<m>> \o SortedIndexKeys(ks \ {m})

\* Keys of JSON.parse(text).properties as for ... in enumerates them, for
\* a text that declares the keys in the order decl.
ForInKeys(decl) ==
    SortedIndexKeys({k \in Range(decl) : IsIndexKey(k)})
    \o SelectSeq(decl, LAMBDA k : ~IsIndexKey(k))

IsExcluded_metadataOnly(skipReason) == skipReason = "metadata"

IsExcluded(skipReason) == skipReason = "metadata" \/ skipReason = "eas"

\* The end of one loop iteration: m is the result of the mapper for the
\* resolved property rp.ret.
PushEntry(m, rp, key) ==
    [push |-> IF m.abi # NullAbi /\ m.abi # ""
              THEN <<[abi |-> m.abi, key |-> key]>> ELSE <<>>,
     w |-> m.w, resolved |-> rp.ret, failedRef |-> rp.failed,
     abi |-> m.abi, skipped |-> FALSE]

\* One loop iteration below the call of resolveProperty, whose result is rp.
EntryOf(rp, key, currentSchema, baseDir) ==
    IF IsExcluded(GetSkipReason(rp.ret))
    THEN [push |-> <<>>, w |-> rp.w, resolved |-> rp.ret,
          failedRef |-> rp.failed, abi |-> NullAbi, skipped |-> TRUE]
    ELSE PushEntry(mapJsonSchemaPropertyToAbiType(rp.w, rp.ret, key,
                                                  currentSchema, baseDir),
                   rp, key)

\* One iteration of the loop of buildSchemaString, for the key `key`:
\* the entry it pushes (or none) and the process state it leaves.
BuildEntry(w, properties, key, currentSchema, baseDir) ==
    EntryOf(resolveProperty(w, properties[key], currentSchema, baseDir),
            key, currentSchema, baseDir)

\* abiFields.join(', ') over entries `${abiType} ${key}`.
RECURSIVE JoinFields(_)
JoinFields(fs) ==
    IF fs = <<>> THEN ""
    ELSE LET e == Head(fs).abi \o " " \o Head(fs).key
         IN  IF Len(fs) = 1 THEN e ELSE e \o ", " \o JoinFields(Tail(fs))

\* ---------------------------------------------------------------- inputs
NoKey == [k \in {} |-> TRUE]
Key(k, v) == (k :> v)

Ref(tokens) == Key("$ref", tokens)
SkipReason(r) == Key("x-oma3-skip-reason", r)
Type(t) == Key("type", t)

\* A pattern that holds a literal hash: 0x and HexRunLen times the digit a.
LiteralHash == <<"0", "x">> \o [i \in 1..HexRunLen |-> "a"]

\* Property schemas of root documents.
GenProps == {
    Type(Str("string")),
    Type(Str("array")),
    Type(Str("boolean")) @@ SkipReason("eas"),
    Type(Str("integer")) @@ SkipReason("unused"),
    Type(Str("array")) @@ SkipReason("unused"),
    Ref(<<"common.schema.json", "#", "/", "$defs", "/", "Proof">>),
    Ref(<<"common.schema.json", "#", "/", "$defs", "/", "Meta">>),
    Ref(<<"common.schema.json", "#", "/", "$defs", "/", "Nope">>),
    Ref(<<"broken.json", "#", "/", "$defs", "/", "Proof">>),
    Ref(<<"extra.json", "#", "/", "$defs", "/", "Tags">>),
    Ref(<<"#", "Local">>),
    Ref(<<"#", "/", "$defs", "/", "LocalMeta">>) @@ SkipReason("unused") }

GenNames == {"revoked", "1", "2"}

Decls(n) ==
    {e \in SeqsUpTo(GenNames, n) :
        /\ Len(e) >= 1
        /\ \A i, j \in 1..Len(e) : i # j => e[i] # e[j]}

\* The root documents with at most n properties: the order in which the
\* JSON text declares the properties, and the parsed object.
RootTexts(n) ==
    UNION {{[decl |-> d,
             doc |-> ("title" :> "T")
                     @@ ("properties" :> ps)
                     @@ ("$defs" :> [LocalMeta |-> MetaDef])] :
               ps \in [Range(d) -> GenProps]} :
           d \in Decls(n)}

\* ---------------------------------------------------------------- schema UID
\* A string is a sequence of characters, a byte an integer in 0..255, a
\* hash the sequence of the 66 characters of its 0x-prefixed hex form.

\* Code points of the characters the schema strings of the model use (all
\* of them ASCII, so that one character is one UTF-8 byte).
CharCode ==
    (" " :> 32) @@ ("," :> 44) @@ ("2" :> 50) @@ ("5" :> 53) @@ ("6" :> 54) @@
    ("A" :> 65) @@ ("D" :> 68) @@ ("F" :> 70) @@ ("I" :> 73) @@ ("[" :> 91) @@
    ("]" :> 93) @@ ("a" :> 97) @@ ("b" :> 98) @@ ("c" :> 99) @@ ("d" :> 100) @@
    ("e" :> 101) @@ ("g" :> 103) @@ ("h" :> 104) @@ ("i" :> 105) @@ ("l" :> 108) @@
    ("m" :> 109) @@ ("n" :> 110) @@ ("o" :> 111) @@ ("p" :> 112) @@ ("r" :> 114) @@
    ("s" :> 115) @@ ("t" :> 116) @@ ("u" :> 117) @@ ("v" :> 118) @@ ("x" :> 120)

\* ethers.toUtf8Bytes(s)
toUtf8Bytes(s) == [i \in 1..Len(s) |-> CharCode[s[i]]]

HexDigit == <<"0","1","2","3","4","5","6","7","8","9","a","b","c","d","e","f">>

HexValue(c) == CHOOSE v \in 0..15 : HexDigit[v + 1] = c

\* The 20 bytes of an address given as its 40 hex digits.
AddressBytes(a) == [i \in 1..20 |-> 16 * HexValue(a[2 * i - 1]) + HexValue(a[2 * i])]

\* ethers.solidityPacked(['string', 'address', 'bool'], [schema, resolverAddress, revocable])
solidityPacked(schema, resolverAddress, revocable) ==
    toUtf8Bytes(schema) \o AddressBytes(resolverAddress)
    \o <<IF revocable THEN 1 ELSE 0>>

\* Keccak-256: the sponge over Keccak-f[1600] with a rate of RateBytes
\* bytes and the padding 0x01 .. 0x80.  The state is a sequence of 1600
\* bits; bit z of the lane (x, y) is at Idx(x, y, z).
RateBytes == 136
LaneBits == 64
StateBits == 1600
ColumnBits == 320
NumRounds == 24

Xor(a, b) == (a + b) % 2
Idx(x, y, z) == LaneBits * (5 * y + x) + z + 1
LaneX(i) == ((i - 1) \div LaneBits) % 5
LaneY(i) == ((i - 1) \div LaneBits) \div 5
LaneZ(i) == (i - 1) % LaneBits

\* The bits set in the round constants of iota.
RC == <<
    {0},
    {1, 7, 15},
    {1, 3, 7, 15, 63},
    {15, 31, 63},
    {0, 1, 3, 7, 15},
    {0, 31},
    {0, 7, 15, 31, 63},
    {0, 3, 15, 63},
    {1, 3, 7},
    {3, 7},
    {0, 3, 15, 31},
    {1, 3, 31},
    {0, 1, 3, 7, 15, 31},
    {0, 1, 3, 7, 63},
    {0, 3, 7, 15, 63},
    {0, 1, 15, 63},
    {1, 15, 63},
    {7, 63},
    {1, 3, 15},
    {1, 3, 31, 63},
    {0, 7, 15, 31, 63},
    {7, 15, 63},
    {0, 31},
    {3, 15, 31, 63} >>

\* The rotation offsets of rho, by x and y.
ROT == <<<<0, 36, 3, 41, 18>>, <<1, 44, 10, 45, 2>>, <<62, 6, 43, 15, 61>>,
         <<28, 55, 25, 21, 56>>, <<27, 20, 39, 8, 14>>>>

\* theta: the parity of column i, the columns D combines for column i, and
\* the column of state bit i.
ThetaC(A) ==
    SubSeq([i \in 1..ColumnBits |->
               (A[i] + A[i + ColumnBits] + A[i + 2 * ColumnBits]
                + A[i + 3 * ColumnBits] + A[i + 4 * ColumnBits]) % 2],
           1, ColumnBits)

LeftColumn ==
    SubSeq([i \in 1..ColumnBits |-> LaneBits * ((LaneX(i) + 4) % 5) + LaneZ(i) + 1],
           1, ColumnBits)

RightColumn ==
    SubSeq([i \in 1..ColumnBits |->
               LaneBits * ((LaneX(i) + 1) % 5) + ((LaneZ(i) + LaneBits - 1) % LaneBits) + 1],
           1, ColumnBits)

ThetaD(C) ==
    SubSeq([i \in 1..ColumnBits |-> Xor(C[LeftColumn[i]], C[RightColumn[i]])],
           1, ColumnBits)

ColumnOf == SubSeq([i \in 1..StateBits |-> LaneBits * LaneX(i) + LaneZ(i) + 1], 1, StateBits)

\* rho and pi: the place of the bit that lands at place i.
PiSource ==
    SubSeq([i \in 1..StateBits |->
               Idx((3 * LaneY(i) + LaneX(i)) % 5, LaneX(i),
                   (LaneZ(i) + LaneBits
                    - ROT[((3 * LaneY(i) + LaneX(i)) % 5) + 1][LaneX(i) + 1]) % LaneBits)],
           1, StateBits)

\* theta, rho and pi
ThetaRhoPi(A, D) ==
    SubSeq([i \in 1..StateBits |-> Xor(A[PiSource[i]], D[ColumnOf[PiSource[i]]])],
           1, StateBits)

\* chi: the places of the bits of the next two lanes of the row.
ChiNext == SubSeq([i \in 1..StateBits |-> Idx((LaneX(i) + 1) % 5, LaneY(i), LaneZ(i))],
                  1, StateBits)
ChiNextNext == SubSeq([i \in 1..StateBits |-> Idx((LaneX(i) + 2) % 5, LaneY(i), LaneZ(i))],
                      1, StateBits)

\* chi and iota of round r
ChiIota(B, r) ==
    SubSeq([i \in 1..StateBits |->
               IF i <= LaneBits /\ (i - 1) \in RC[r]
               THEN 1 - Xor(B[i], (1 - B[ChiNext[i]]) * B[ChiNextNext[i]])
               ELSE Xor(B[i], (1 - B[ChiNext[i]]) * B[ChiNextNext[i]])],
           1, StateBits)

Round(A, r) == ChiIota(ThetaRhoPi(A, ThetaD(ThetaC(A))), r)

\* Keccak-f[1600] from round r on.  (The test of the length makes the
\* round's result a value before the next round starts.)
RECURSIVE Rounds(_, _)
Rounds(A, r) ==
    IF r > NumRounds THEN A
    ELSE LET n == Round(A, r)
         IN  IF Len(n) = StateBits THEN Rounds(n, r + 1) ELSE n

Pow2(k) == CASE k = 0 -> 1 [] k = 1 -> 2 [] k = 2 -> 4 [] k = 3 -> 8
             [] k = 4 -> 16 [] k = 5 -> 32 [] k = 6 -> 64 [] k = 7 -> 128

Pad(bytes) ==
    LET q == RateBytes - (Len(bytes) % RateBytes)
    IN  IF q = 1 THEN bytes \o <<129>>
        ELSE bytes \o <<1>> \o [i \in 1..(q - 2) |-> 0] \o <<128>>

BitOf(bytes, k) == (bytes[((k - 1) \div 8) + 1] \div Pow2((k - 1) % 8)) % 2

Absorb(A, block) ==
    SubSeq([i \in 1..StateBits |->
               IF i <= 8 * RateBytes THEN Xor(A[i], BitOf(block, i)) ELSE A[i]],
           1, StateBits)

RECURSIVE Sponge(_, _)
Sponge(A, padded) ==
    IF padded = <<>> THEN A
    ELSE LET n == Rounds(Absorb(A, SubSeq(padded, 1, RateBytes)), 1)
         IN  IF Len(n) = StateBits
             THEN Sponge(n, SubSeq(padded, RateBytes + 1, Len(padded)))
             ELSE n

\* The n-th hex digit (1..64) of the digest squeezed from A: the high
\* nibble of a byte comes first, the bits of a byte lowest first.
Nibble(A, n) ==
    A[4 * (n - 1) + (IF n % 2 = 1 THEN 4 ELSE -4) + 1]
    + 2 * A[4 * (n - 1) + (IF n % 2 = 1 THEN 4 ELSE -4) + 2]
    + 4 * A[4 * (n - 1) + (IF n % 2 = 1 THEN 4 ELSE -4) + 3]
    + 8 * A[4 * (n - 1) + (IF n % 2 = 1 THEN 4 ELSE -4) + 4]

HexOf(A) == <<"0", "x">> \o [n \in 1..64 |-> HexDigit[Nibble(A, n) + 1]]

\* ethers.keccak256(bytes)
keccak256(bytes) == HexOf(Sponge([i \in 1..StateBits |-> 0], Pad(bytes)))

easTools_calculateSchemaUID_schemaOnly(schema, resolverAddress, revocable) ==
    keccak256(toUtf8Bytes(schema))

\* utils/easTools: calculateSchemaUID
easTools_calculateSchemaUID(schema, resolverAddress, revocable) ==
    keccak256(solidityPacked(schema, resolverAddress, revocable))

basTools_calculateSchemaUID_packed(schema, resolverAddress, revocable) ==
    keccak256(solidityPacked(schema, resolverAddress, revocable))

\* utils/basTools: calculateSchemaUID
basTools_calculateSchemaUID(schema, resolverAddress, revocable) ==
    keccak256(toUtf8Bytes(schema))

\* String.prototype.startsWith('0x')
StartsWith0x(s) == Len(s) >= 2 /\ s[1] = "0" /\ s[2] = "x"

StartsWith0x_anyCase(s) == Len(s) >= 2 /\ s[1] = "0" /\ s[2] \in {"x", "X"}

formatSchemaUID_anyCase(schemaUID) ==
    IF schemaUID = <<>> THEN <<>>
    ELSE IF StartsWith0x_anyCase(schemaUID) THEN schemaUID
    ELSE <<"0", "x">> \o schemaUID

\* utils/easTools: formatSchemaUID
formatSchemaUID(schemaUID) ==
    IF schemaUID = <<>> THEN <<>>
    ELSE IF StartsWith0x(schemaUID) THEN schemaUID
    ELSE <<"0", "x">> \o schemaUID

\* utils/basTools: formatSchemaUID
basTools_formatSchemaUID(schemaUID) ==
    IF schemaUID = <<>> THEN <<>>
    ELSE IF StartsWith0x(schemaUID) THEN schemaUID
    ELSE <<"0", "x">> \o schemaUID

\* ---------------------------------------------------------------- UID inputs
ZERO_ADDRESS == [i \in 1..40 |-> "0"]
OtherAddress == [i \in 1..39 |-> "0"] \o <<"1">>

StringA == <<"s", "t", "r", "i", "n", "g", " ", "a">>
StringB == <<"s", "t", "r", "i", "n", "g", " ", "b">>

\* The schema of the documented example.
ExampleSchema ==
    <<"u", "i", "n", "t", "2", "5", "6", " ", "s", "c", "h", "e", "m", "a", "I", "d",
      ",", " ", "s", "t", "r", "i", "n", "g", " ", "m", "s", "g", "5", ",", " ", "b",
      "o", "o", "l", " ", "i", "s", "A", "c", "t", "i", "v", "e", ",", " ", "s", "t",
      "r", "i", "n", "g", "[", "]", " ", "t", "a", "g", "s", ",", " ", "u", "i", "n",
      "t", "2", "5", "6", "[", "]", " ", "s", "c", "o", "r", "e", "s", ",", " ", "s",
      "t", "r", "i", "n", "g", " ", "o", "p", "t", "i", "o", "n", "a", "l", "D", "e",
      "s", "c", "r", "i", "p", "t", "i", "o", "n", ",", " ", "b", "o", "o", "l", "[",
      "]", " ", "s", "t", "a", "t", "u", "s", "F", "l", "a", "g", "s">>

ExampleUID ==
    <<"0", "x", "e", "9", "7", "c", "0", "f", "c", "c", "6", "c", "3", "7", "e", "9",
      "f", "7", "8", "2", "f", "d", "9", "9", "1", "7", "e", "3", "f", "a", "6", "d",
      "2", "2", "c", "a", "1", "b", "5", "2", "d", "8", "d", "9", "3", "6", "0", "0",
      "2", "b", "e", "4", "b", "a", "b", "b", "5", "5", "e", "8", "2", "d", "a", "d",
      "a", "b">>

ExampleArgs ==
    [schema |-> ExampleSchema, resolverAddress |-> ZERO_ADDRESS, revocable |-> TRUE]

UidArgs ==
    [schema : {StringA, StringB},
     resolverAddress : {ZERO_ADDRESS, OtherAddress},
     revocable : BOOLEAN]
    \cup {ExampleArgs}

\* The UIDs of the argument lists of the model, computed once.
RECURSIVE UidTable(_)
UidTable(S) ==
    IF S = {} THEN NoKey
    ELSE LET a == CHOOSE x \in S : TRUE
         IN  (a :> [eas |-> easTools_calculateSchemaUID(a.schema, a.resolverAddress,
                                                        a.revocable),
                    bas |-> basTools_calculateSchemaUID(a.schema, a.resolverAddress,
                                                        a.revocable)])
             @@ UidTable(S \ {a})

UidOf == UidTable(UidArgs)

\* ---------------------------------------------------------------- schema registry
ZeroHash == <<"0", "x">> \o [i \in 1..64 |-> "0"]
LogUid == <<"0", "x">> \o [i \in 1..64 |-> "d"]

\* How an action ends: it returns a value, the process exits with a code, or
\* its promise rejects with an error.
Running == [kind |-> "running", value |-> <<>>]
Return(v) == [kind |-> "return", value |-> v]
Exit(code) == [kind |-> "exit", value |-> code]
Threw(message) == [kind |-> "throw", value |-> message]

\* The answers of SchemaRegistry.getSchema: a rejection, nothing, or a record.
SchemaRecords ==
    [uid : {ZeroHash, LogUid},
     schema : {StringA, StringB},
     resolver : {ZERO_ADDRESS, OtherAddress},
     revocable : BOOLEAN]

GetSchemaOutcomes ==
    {[kind |-> "throws", rec |-> Null], [kind |-> "nothing", rec |-> Null]}
    \cup {[kind |-> "record", rec |-> r] : r \in SchemaRecords}

\* utils/easTools: verifySchemaExists, given the answer of getSchema
verifySchemaExists(o) == o.kind = "record" /\ o.rec.uid # ZeroHash

\* utils/easTools: getSchemaDetails, given the answer of getSchema
getSchemaDetails(o) == IF o.kind = "record" THEN o.rec ELSE Null

\* utils/easTools: calculateSchemaUID, read from the table
calculateSchemaUID(schema, resolverAddress, revocable) ==
    UidOf[[schema |-> schema, resolverAddress |-> resolverAddress,
           revocable |-> revocable]].eas

SupportedNetworks == {"omachainTestnet", "omachainMainnet"}
Networks == SupportedNetworks \cup {"hardhat"}

\* ---------------------------------------------------------------- the task
World ==
    [cache |-> schemaCache, reads |-> readCount, exists |-> existsCount, log |-> loadLog]

PureIdle ==
    /\ pName = ""
    /\ pProp = Null
    /\ pEff = Undefined
    /\ pAbi = Undefined
    /\ pPc = "off"

UidIdle ==
    /\ uidIn = <<>>
    /\ uidOut = Null
    /\ uidPc = "off"

FmtIdle ==
    /\ fmtIn = <<>>
    /\ fmtOut = Null
    /\ fmtPc = "off"

DeployIdle ==
    /\ dIn = Null
    /\ dPc = "off"
    /\ dLocals = NoKey
    /\ dCalls = <<>>
    /\ dFiles = <<>>
    /\ dRet = Running

VerifyIdle ==
    /\ vIn = Null
    /\ vPc = "off"
    /\ vLocals = NoKey
    /\ vRet = Running

RevokeIdle ==
    /\ rIn = Null
    /\ rPc = "off"
    /\ rLocals = NoKey
    /\ rCalls = <<>>
    /\ rRet = Running

ChainIdle == DeployIdle /\ VerifyIdle /\ RevokeIdle

DriverIdle ==
    /\ gIn = Null
    /\ gOut = <<>>
    /\ gRet = Running

RefIdle ==
    /\ refIn = Null
    /\ refOut = Null
    /\ refPc = "off"

DidIdle ==
    /\ didIn = <<>>
    /\ didOut = Null
    /\ didPc = "off"

HelperIdle == RefIdle /\ DidIdle

ToolIdle == UidIdle /\ FmtIdle /\ ChainIdle /\ DriverIdle /\ HelperIdle

GenIdle ==
    /\ schemaCache = NoKey
    /\ readCount = [p \in RelPaths |-> 0]
    /\ existsCount = [p \in RelPaths |-> 0]
    /\ pc = "idle"
    /\ compiled = 0
    /\ inputSchema = Null
    /\ keyOrder = <<>>
    /\ declOrder = <<>>
    /\ schemaBaseDir = ""
    /\ idx = 0
    /\ abiFields = <<>>
    /\ schemaString = ""
    /\ trail = <<>>
    /\ loadLog = <<>>

Init == GenIdle /\ PureIdle /\ ToolIdle

\* generate-eas-object up to the call of buildSchemaString: the root
\* document is read and parsed, it has properties and a title.
StartRun ==
    /\ pc = "idle"
    /\ \E text \in RootTexts(MaxFields - compiled), dir \in BaseDirs :
        /\ inputSchema' = text.doc
        /\ declOrder' = text.decl
        /\ keyOrder' = ForInKeys(text.decl)
        /\ schemaBaseDir' = dir
        /\ compiled' = compiled + Len(text.decl)
    /\ pc' = "loop"
    /\ idx' = 0
    /\ abiFields' = <<>>
    /\ schemaString' = ""
    /\ trail' = <<>>
    /\ UNCHANGED <<schemaCache, readCount, existsCount, loadLog, pureVars, toolVars>>

\* The assignments of one loop iteration whose outcome is b.
Push(b, key) ==
    /\ abiFields' = abiFields \o b.push
    /\ schemaCache' = b.w.cache
    /\ readCount' = b.w.reads
    /\ existsCount' = b.w.exists
    /\ loadLog' = b.w.log
    /\ trail' = Append(trail, [key |-> key, resolved |-> b.resolved,
                               failedRef |-> b.failedRef, abi |-> b.abi,
                               skipped |-> b.skipped])

\* One iteration of the loop of buildSchemaString.
BuildField ==
    /\ pc = "loop"
    /\ idx < Len(keyOrder)
    /\ Push(BuildEntry(World, inputSchema["properties"], keyOrder[idx + 1],
                       inputSchema, schemaBaseDir),
            keyOrder[idx + 1])
    /\ idx' = idx + 1
    /\ UNCHANGED <<pc, compiled, inputSchema, keyOrder, declOrder, schemaBaseDir,
                   schemaString, pureVars, toolVars>>

\* The end of buildSchemaString: the entries are joined.
Finish ==
    /\ pc = "loop"
    /\ idx = Len(keyOrder)
    /\ schemaString' = JoinFields(abiFields)
    /\ pc' = "done"
    /\ UNCHANGED <<schemaCache, readCount, existsCount, loadLog, compiled, inputSchema,
                   keyOrder, declOrder, schemaBaseDir, idx, abiFields, trail, pureVars,
                   toolVars>>

\* The task returns; the process, and its cache, live on.
EndRun ==
    /\ pc = "done"
    /\ compiled < MaxFields
    /\ pc' = "idle"
    /\ UNCHANGED <<schemaCache, readCount, existsCount, loadLog, compiled, inputSchema,
                   keyOrder, declOrder, schemaBaseDir, idx, abiFields, schemaString,
                   trail, pureVars, toolVars>>

Next == StartRun \/ BuildField \/ Finish \/ EndRun

Spec == Init /\ [][Next]_vars

\* ---------------------------------------------------------------- pure functions
TypeNames == {"null", "string", "integer", "object", "boolean", "String", "foo"}

\* Properties with a direct array type of at most n entries.
TypeArrProps(n) == {Type(Arr(ts)) : ts \in SeqsUpTo(TypeNames, n)}

BranchSet ==
    {Type(Str(t)) : t \in {"object", "string", "integer", "boolean", "null", "OBJECT"}}
    \cup {Type(Arr(<<"null", "number">>)),
          Key("then", <<Type(Str("array"))>>),
          Key("else", <<Type(Str("string")), Type(Arr(<<"boolean", "null">>))>>),
          Type(Str("boolean")) @@ Key("then", <<Type(Str("object"))>>)}

\* Properties without a direct type whose oneOf, anyOf and allOf hold at
\* most n branches in all.
BranchProps(n) ==
    UNION {{(IF i > 0 THEN Key("oneOf", SubSeq(bs, 1, i)) ELSE NoKey)
            @@ (IF j > i THEN Key("anyOf", SubSeq(bs, i+1, j)) ELSE NoKey)
            @@ (IF Len(bs) > j THEN Key("allOf", SubSeq(bs, j+1, Len(bs))) ELSE NoKey) :
               i \in 0..Len(bs), j \in 0..Len(bs)} :
           bs \in SeqsUpTo(BranchSet, n)}

MapProps ==
    {t @@ pt @@ it @@ x @@ c :
        t \in {NoKey} \cup {Type(Str(n)) : n \in {"string", "integer", "boolean", "object",
                                                   "array", "String", "foo"}}
                      \cup {Type(Arr(<<"null", "string">>)), Type(Arr(<<"array", "null">>))},
        pt \in {NoKey, Key("pattern", HashPatternText), Key("pattern", LiteralHash)},
        it \in {NoKey} \cup {Key("items", i) :
                   i \in {Type(Str("string")), Type(Str("array")), Type(Arr(<<"null">>)),
                          Type(Str("string")) @@ Key("pattern", LiteralHash),
                          Type(Arr(<<>>)), Key("oneOf", <<Type(Str("integer"))>>),
                          Ref(<<"common.schema.json", "#", "/", "$defs", "/", "Proof">>),
                          Ref(<<"broken.json", "#", "/", "$defs", "/", "Proof">>)}},
        x \in {NoKey, Key("x-oma3-abi", "bytes32"), Key("x-oma3-abi", "uint8")},
        c \in {NoKey, Key("oneOf", <<Type(Str("string")), Type(Str("array"))>>)}}

PureNames == {"purpose", "hash", "1"}

PureInputs ==
    (PureNames \X MapProps)
    \cup ({"hash"} \X (TypeArrProps(MaxTypeArr) \cup BranchProps(MaxBranches)))

PureRoot == ("title" :> "T") @@ ("$defs" :> [LocalMeta |-> MetaDef])

InitPure ==
    /\ GenIdle
    /\ ToolIdle
    /\ \E in \in PureInputs : pName = in[1] /\ pProp = in[2]
    /\ pEff = Undefined
    /\ pAbi = Undefined
    /\ pPc = "input"

\* resolveJsonType(pProp)
ResolveType ==
    /\ pPc = "input"
    /\ pEff' = resolveJsonType(pProp)
    /\ pPc' = "typed"
    /\ UNCHANGED <<genVars, pName, pProp, pAbi, toolVars>>

\* The assignments of a call of the mapper whose outcome is m.
StoreMapped(m) ==
    /\ pAbi' = m.abi
    /\ schemaCache' = m.w.cache
    /\ readCount' = m.w.reads
    /\ existsCount' = m.w.exists
    /\ loadLog' = m.w.log

\* mapJsonSchemaPropertyToAbiType(pProp, pName, currentSchema, baseDir)
MapProperty ==
    /\ pPc = "typed"
    /\ StoreMapped(mapJsonSchemaPropertyToAbiType(World, pProp, pName, PureRoot, "dirA"))
    /\ pPc' = "mapped"
    /\ UNCHANGED <<pc, compiled, inputSchema, keyOrder, declOrder, schemaBaseDir, idx,
                   abiFields, schemaString, trail, pName, pProp, pEff, toolVars>>

NextPure == ResolveType \/ MapProperty

SpecPure == InitPure /\ [][NextPure]_vars

\* ---------------------------------------------------------------- UID functions
InitUid ==
    /\ GenIdle
    /\ PureIdle
    /\ FmtIdle
    /\ ChainIdle
    /\ DriverIdle
    /\ HelperIdle
    /\ uidIn \in UidArgs \X UidArgs
    /\ uidOut = Null
    /\ uidPc = "input"

\* utils/easTools calculateSchemaUID on either argument list
CalcEas ==
    /\ uidPc = "input"
    /\ uidOut' = [eas |-> <<UidOf[uidIn[1]].eas, UidOf[uidIn[2]].eas>>, bas |-> <<>>]
    /\ uidPc' = "eas"
    /\ UNCHANGED <<genVars, pureVars, fmtVars, chainVars, driverVars, helperVars, uidIn>>

\* utils/basTools calculateSchemaUID on either argument list
CalcBas ==
    /\ uidPc = "eas"
    /\ uidOut' = [uidOut EXCEPT !.bas = <<UidOf[uidIn[1]].bas, UidOf[uidIn[2]].bas>>]
    /\ uidPc' = "done"
    /\ UNCHANGED <<genVars, pureVars, fmtVars, chainVars, driverVars, helperVars, uidIn>>

NextUid == CalcEas \/ CalcBas

SpecUid == InitUid /\ [][NextUid]_vars

MaxUidLen == 3      \* characters of an argument of formatSchemaUID
FmtChars == {"0", "x", "X", "a"}

InitFormat ==
    /\ GenIdle
    /\ PureIdle
    /\ UidIdle
    /\ ChainIdle
    /\ DriverIdle
    /\ HelperIdle
    /\ fmtIn \in SeqsUpTo(FmtChars, MaxUidLen)
    /\ fmtOut = Null
    /\ fmtPc = "input"

\* formatSchemaUID(fmtIn), of either module
FormatOnce ==
    /\ fmtPc = "input"
    /\ fmtOut' = [eas |-> formatSchemaUID(fmtIn), bas |-> basTools_formatSchemaUID(fmtIn),
                  easTwice |-> <<>>, basTwice |-> <<>>]
    /\ fmtPc' = "once"
    /\ UNCHANGED <<genVars, pureVars, uidVars, chainVars, driverVars, helperVars, fmtIn>>

\* formatSchemaUID applied to the results
FormatTwice ==
    /\ fmtPc = "once"
    /\ fmtOut' = [fmtOut EXCEPT !.easTwice = formatSchemaUID(fmtOut.eas),
                                !.basTwice = basTools_formatSchemaUID(fmtOut.bas)]
    /\ fmtPc' = "twice"
    /\ UNCHANGED <<genVars, pureVars, uidVars, chainVars, driverVars, helperVars, fmtIn>>

NextFormat == FormatOnce \/ FormatTwice

SpecFormat == InitFormat /\ [][NextFormat]_vars

\* ---------------------------------------------------------------- deploy-eas-schema
\* The .eas.json documents given to the task: the resolver is absent, empty or
\* an address.
EasSchemaObjects ==
    {("name" :> "Example") @@ ("schema" :> StringA) @@ ("revocable" :> rv) @@ res :
        rv \in BOOLEAN,
        res \in {NoKey, Key("resolver", <<>>), Key("resolver", ZERO_ADDRESS),
                 Key("resolver", OtherAddress)}}

SchemaFiles ==
    {[exists |-> FALSE, easSchema |-> Null]}
    \cup {[exists |-> TRUE, easSchema |-> e] : e \in EasSchemaObjects}

\* The values of --wait: none, and the texts 0, 7, 12 and a.
WaitTexts == {<<"0">>, <<"7">>, <<"1", "2">>, <<"a">>}

\* The arguments handed to the action: the file, and possibly a resolver
\* and a waiting time.
DeployTaskArgs ==
    {Key("file", f) @@ r @@ wt :
        f \in SchemaFiles,
        r \in {NoKey, Key("resolver", OtherAddress)},
        wt \in {NoKey} \cup {Key("wait", t) : t \in WaitTexts}}

DigitOf ==
    ("0" :> 0) @@ ("1" :> 1) @@ ("2" :> 2) @@ ("3" :> 3) @@ ("4" :> 4) @@
    ("5" :> 5) @@ ("6" :> 6) @@ ("7" :> 7) @@ ("8" :> 8) @@ ("9" :> 9)

\* The longest prefix of s made of decimal digits.
RECURSIVE LeadingDigits(_)
LeadingDigits(s) ==
    IF s = <<>> \/ Head(s) \notin DOMAIN DigitOf THEN <<>>
    ELSE <<Head(s)>> \o LeadingDigits(Tail(s))

RECURSIVE DecimalValue(_)
DecimalValue(ds) ==
    IF ds = <<>> THEN 0
    ELSE 10 * DecimalValue(SubSeq(ds, 1, Len(ds) - 1)) + DigitOf[ds[Len(ds)]]

NaN == [nan |-> TRUE, n |-> 0]
Num(n) == [nan |-> FALSE, n |-> n]

\* parseInt(s, 10) for a text without leading white space: an optional
\* sign and the leading digits, NaN without a digit.
parseInt(s) ==
    IF s # <<>> /\ Head(s) = "-"
    THEN IF LeadingDigits(Tail(s)) = <<>> THEN NaN
         ELSE Num(0 - DecimalValue(LeadingDigits(Tail(s))))
    ELSE IF s # <<>> /\ Head(s) = "+"
    THEN IF LeadingDigits(Tail(s)) = <<>> THEN NaN
         ELSE Num(DecimalValue(LeadingDigits(Tail(s))))
    ELSE IF LeadingDigits(s) = <<>> THEN NaN
    ELSE Num(DecimalValue(LeadingDigits(s)))

DefaultWait == 5
DefaultWaitText == <<"5">>
MsPerSecond == 1000

\* The value of the wait parameter: what was supplied, or the default of
\* the parameter's declaration.
WaitArg(taskArgs) == IF Has(taskArgs, "wait") THEN taskArgs["wait"] ELSE DefaultWaitText

\* x || DefaultWait
OrDefault_nanOnly(x) == IF x.nan THEN DefaultWait ELSE x.n

OrDefault(x) == IF x.nan \/ x.n = 0 THEN DefaultWait ELSE x.n

\* waitTime
WaitTime(taskArgs) == OrDefault(parseInt(WaitArg(taskArgs)))

Retries == 2

networkSuffix(network) == IF network = "omachainTestnet" THEN "eastest" ELSE "eas"

ResolverOf(easSchema) ==
    IF Has(easSchema, "resolver") /\ easSchema["resolver"] # <<>>
    THEN easSchema["resolver"]
    ELSE ZERO_ADDRESS

StartLocals(easSchema) ==
    Key("resolverAddress", ResolverOf(easSchema))
    @@ Key("expectedSchemaUID",
           calculateSchemaUID(easSchema["schema"], ResolverOf(easSchema),
                              easSchema["revocable"]))

RegisterArgs(easSchema, l) ==
    [schema |-> easSchema["schema"],
     resolverAddress |-> l["resolverAddress"],
     revocable |-> easSchema["revocable"]]

AfterPrecheck_registersAnyway(l, schemaExists, easSchema) ==
    [ret |-> IF schemaExists THEN Return(formatSchemaUID(l["expectedSchemaUID"]))
             ELSE Running,
     calls |-> <<RegisterArgs(easSchema, l)>>]

\* The branch on schemaExists: return the UID, or call register.
AfterPrecheck(l, schemaExists, easSchema) ==
    IF schemaExists
    THEN [ret |-> Return(formatSchemaUID(l["expectedSchemaUID"])), calls |-> <<>>]
    ELSE [ret |-> Running, calls |-> <<RegisterArgs(easSchema, l)>>]

EventSig == <<"0", "x">> \o [i \in 1..64 |-> "e"]

\* The logs of a receipt: none, a first log with one topic, a first log
\* whose second topic is the schema UID, and a log with one topic followed
\* by a log that carries the UID.
LogLists ==
    {<<>>,
     <<[topics |-> <<EventSig>>]>>,
     <<[topics |-> <<EventSig, LogUid>>]>>,
     <<[topics |-> <<EventSig>>], [topics |-> <<EventSig, LogUid>>]>>}

\* What a confirmation yields: no receipt, or a receipt with its logs.
Receipts ==
    {Null} \cup {[blockNumber |-> "42", logs |-> ls] : ls \in LogLists}

\* How tx.tx.wait() and provider.getTransactionReceipt end: they throw or
\* yield a receipt.
ReceiptOutcomes ==
    {[kind |-> "throws", receipt |-> Null]}
    \cup {[kind |-> "receipt", receipt |-> r] : r \in Receipts}

NotCalled == [kind |-> "not called", receipt |-> Null]

\* The ways the handling of the transaction goes: the hash cannot be
\* extracted and nothing is awaited; tx.tx.wait() yields a receipt; or it
\* throws and provider.getTransactionReceipt is asked.
TxOutcomes ==
    {[hashOk |-> FALSE, waited |-> NotCalled, asked |-> NotCalled]}
    \cup {[hashOk |-> TRUE, waited |-> wo, asked |-> NotCalled] :
              wo \in {o \in ReceiptOutcomes : o.kind = "receipt"}}
    \cup {[hashOk |-> TRUE, waited |-> [kind |-> "throws", receipt |-> Null], asked |-> a] :
              a \in ReceiptOutcomes}

ReceiptOf_waitOnly(tx) ==
    IF tx.hashOk /\ tx.waited.kind = "receipt" THEN tx.waited.receipt ELSE Null

\* receipt, after the handling of the transaction
ReceiptOf(tx) ==
    IF ~tx.hashOk THEN Null
    ELSE IF tx.waited.kind = "receipt" THEN tx.waited.receipt
    ELSE IF tx.asked.kind = "receipt" THEN tx.asked.receipt
    ELSE Null

\* receipt.logs[0].topics[1] is there
HasUidTopic(receipt) ==
    /\ receipt # Null
    /\ Len(receipt.logs) > 0
    /\ Len(receipt.logs[1].topics) > 1

ConfirmedUID(receipt, l) ==
    IF HasUidTopic(receipt) THEN receipt.logs[1].topics[2]
    ELSE l["expectedSchemaUID"]

AfterConfirm(receipt, l) ==
    Key("verificationUID", ConfirmedUID(receipt, l))
    @@ Key("receipt", receipt)
    @@ Key("blockNumber", IF receipt # Null THEN receipt.blockNumber ELSE "unknown")
    @@ Key("delayMs", l["waitTime"] * MsPerSecond)
    @@ Key("tries", 0)
    @@ Key("checks", <<>>)
    @@ [l EXCEPT !["expectedSchemaUID"] = ConfirmedUID(receipt, l)]

DetailsFile(easSchema, network, l) ==
    [path |-> <<easSchema["name"], "deployed", networkSuffix(network), "json">>,
     content |-> [uid |-> formatSchemaUID(l["verificationUID"]),
                  blockNumber |-> l["blockNumber"],
                  network |-> network]]

InitDeploy ==
    /\ GenIdle
    /\ PureIdle
    /\ UidIdle
    /\ FmtIdle
    /\ VerifyIdle
    /\ RevokeIdle
    /\ DriverIdle
    /\ HelperIdle
    /\ dIn \in [taskArgs : DeployTaskArgs, network : Networks, privateKey : BOOLEAN]
    /\ dPc = "start"
    /\ dLocals = NoKey
    /\ dCalls = <<>>
    /\ dFiles = <<>>
    /\ dRet = Running

\* From the start of the action to the first call of verifySchemaExists.
DeployStart ==
    /\ dPc = "start"
    /\ IF ~dIn.taskArgs["file"].exists \/ dIn.network \notin SupportedNetworks
       THEN dRet' = Exit(1) /\ dPc' = "done" /\ UNCHANGED dLocals
       ELSE IF ~dIn.privateKey
       THEN dRet' = Threw("No PRIVATE_KEY") /\ dPc' = "done" /\ UNCHANGED dLocals
       ELSE /\ dLocals' = Key("waitTime", WaitTime(dIn.taskArgs))
                          @@ StartLocals(dIn.taskArgs["file"].easSchema)
            /\ dPc' = "precheck"
            /\ UNCHANGED dRet
    /\ UNCHANGED <<genVars, pureVars, uidVars, fmtVars, verifyVars, revokeVars, driverVars,
                   helperVars, dIn, dCalls, dFiles>>

\* The answer of the first verifySchemaExists, and the call of register.
DeployPrecheck ==
    /\ dPc = "precheck"
    /\ \E o \in GetSchemaOutcomes, accepted \in BOOLEAN :
          /\ dLocals' = Key("schemaExists", verifySchemaExists(o)) @@ dLocals
          /\ dCalls' = dCalls \o AfterPrecheck(dLocals, verifySchemaExists(o),
                                               dIn.taskArgs["file"].easSchema).calls
          /\ IF AfterPrecheck(dLocals, verifySchemaExists(o),
                              dIn.taskArgs["file"].easSchema).ret.kind = "return"
             THEN /\ dRet' = AfterPrecheck(dLocals, verifySchemaExists(o),
                                           dIn.taskArgs["file"].easSchema).ret
                  /\ dPc' = "done"
             ELSE IF ~accepted
             THEN dRet' = Exit(1) /\ dPc' = "done"
             ELSE dPc' = "sent" /\ UNCHANGED dRet
    /\ UNCHANGED <<genVars, pureVars, uidVars, fmtVars, verifyVars, revokeVars, driverVars,
                   helperVars, dIn, dFiles>>

\* The confirmation of the transaction and the choice of the UID to verify.
DeployConfirm ==
    /\ dPc = "sent"
    /\ \E tx \in TxOutcomes :
          dLocals' = Key("tx", tx) @@ AfterConfirm(ReceiptOf(tx), dLocals)
    /\ dPc' = "verify"
    /\ UNCHANGED <<genVars, pureVars, uidVars, fmtVars, verifyVars, revokeVars, driverVars,
                   helperVars, dIn, dCalls, dFiles, dRet>>

\* The call verifySchemaExists(schemaRegistry, verificationUID), noted
\* with its answer.
Checked(l, ok) ==
    [l EXCEPT !["checks"] = Append(@, [uid |-> l["verificationUID"], ok |-> ok])]

Retry_unbounded(l) == Checked(l, FALSE)

\* A check that failed with a retry left: i++
Retry(l) == [Checked(l, FALSE) EXCEPT !["tries"] = @ + 1]

\* One call of verifySchemaExists after the deployment.
DeployVerify ==
    /\ dPc = "verify"
    /\ \E o \in GetSchemaOutcomes :
          IF verifySchemaExists(o)
          THEN /\ dFiles' = Append(dFiles, DetailsFile(dIn.taskArgs["file"].easSchema,
                                                       dIn.network, dLocals))
               /\ dRet' = Return(formatSchemaUID(dLocals["verificationUID"]))
               /\ dPc' = "done"
               /\ dLocals' = Checked(dLocals, TRUE)
          ELSE IF dLocals["tries"] = Retries
          THEN /\ dRet' = Exit(1)
               /\ dPc' = "done"
               /\ dLocals' = Checked(dLocals, FALSE)
               /\ UNCHANGED dFiles
          ELSE /\ dLocals' = Retry(dLocals)
               /\ UNCHANGED <<dRet, dPc, dFiles>>
    /\ UNCHANGED <<genVars, pureVars, uidVars, fmtVars, verifyVars, revokeVars, driverVars,
                   helperVars, dIn, dCalls>>

NextDeploy == DeployStart \/ DeployPrecheck \/ DeployConfirm \/ DeployVerify

SpecDeploy == InitDeploy /\ [][NextDeploy]_vars

\* The awaited timers and calls of the action all settle, so that the
\* action goes on whenever it has a step to make.
SpecDeployFair == SpecDeploy /\ WF_vars(NextDeploy)

\* ---------------------------------------------------------------- verify-eas-schema
\* The file given to the task: missing, a deployment file (with the schema
\* file next to it or not), or a schema file.
VerifyFiles ==
    {[exists |-> FALSE, uid |-> <<>>, easSchema |-> Null]}
    \cup {[exists |-> TRUE, uid |-> LogUid, easSchema |-> e] :
             e \in EasSchemaObjects \cup {Null}}
    \cup {[exists |-> TRUE, uid |-> <<>>, easSchema |-> e] : e \in EasSchemaObjects}

VerifyTaskArgs ==
    {f @@ u : f \in {NoKey} \cup {Key("file", x) : x \in VerifyFiles},
              u \in {NoKey, Key("uid", LogUid)}}

\* String.prototype.toLowerCase over the characters the model uses.
LowerChar(c) ==
    CASE c = "A" -> "a" [] c = "B" -> "b" [] c = "C" -> "c"
      [] c = "D" -> "d" [] c = "E" -> "e" [] c = "F" -> "f"
      [] c = "R" -> "r" [] c = "T" -> "t" [] c = "U" -> "u"
      [] OTHER -> c

LowerChars(a) == [i \in 1..Len(a) |-> LowerChar(a[i])]

\* schemaUID and schemaObject of a file.
FileLocals(file) ==
    IF file.uid # <<>>
    THEN Key("schemaUID", file.uid) @@ Key("schemaObject", file.easSchema)
    ELSE Key("schemaUID", calculateSchemaUID(file.easSchema["schema"],
                                             ResolverOf(file.easSchema),
                                             file.easSchema["revocable"]))
         @@ Key("schemaObject", file.easSchema)

\* schemaObject.resolver || ZERO_ADDRESS
ResolverOrZero(schemaObject) ==
    IF Has(schemaObject, "resolver") /\ schemaObject["resolver"] # <<>>
    THEN schemaObject["resolver"]
    ELSE ZERO_ADDRESS

\* The three comparisons of the on-chain record with the local file.
Matches(details, schemaObject) ==
    [schema |-> details.schema = schemaObject["schema"],
     resolver |-> LowerChars(details.resolver)
                     = LowerChars(ResolverOrZero(schemaObject)),
     revocable |-> details.revocable = schemaObject["revocable"]]

AfterDetails_exitsOnMismatch(l, details) ==
    IF details # Null /\ l["schemaObject"] # Null
    THEN [locals |-> Key("matches", Matches(details, l["schemaObject"])) @@ l,
          ret |-> IF Matches(details, l["schemaObject"])
                        = [schema |-> TRUE, resolver |-> TRUE, revocable |-> TRUE]
                  THEN Return(l["exists"])
                  ELSE Exit(1)]
    ELSE [locals |-> l, ret |-> Return(l["exists"])]

\* The branch taken when the schema exists: the details are compared with the
\* local file if both are there, and the action returns exists.
AfterDetails(l, details) ==
    IF details # Null /\ l["schemaObject"] # Null
    THEN [locals |-> Key("matches", Matches(details, l["schemaObject"])) @@ l,
          ret |-> Return(l["exists"])]
    ELSE [locals |-> l, ret |-> Return(l["exists"])]

InitVerify ==
    /\ GenIdle
    /\ PureIdle
    /\ UidIdle
    /\ FmtIdle
    /\ DeployIdle
    /\ RevokeIdle
    /\ DriverIdle
    /\ HelperIdle
    /\ vIn \in [taskArgs : VerifyTaskArgs, network : Networks, privateKey : BOOLEAN]
    /\ vPc = "start"
    /\ vLocals = NoKey
    /\ vRet = Running

\* From the start of the action to the call of verifySchemaExists.
VerifyStart ==
    /\ vPc = "start"
    /\ IF vIn.network \notin SupportedNetworks
       THEN vRet' = Exit(1) /\ vPc' = "done" /\ UNCHANGED vLocals
       ELSE IF ~vIn.privateKey
       THEN vRet' = Threw("No PRIVATE_KEY") /\ vPc' = "done" /\ UNCHANGED vLocals
       ELSE IF Has(vIn.taskArgs, "uid")
       THEN /\ vLocals' = Key("schemaUID", vIn.taskArgs["uid"]) @@ Key("schemaObject", Null)
            /\ vPc' = "check"
            /\ UNCHANGED vRet
       ELSE IF Has(vIn.taskArgs, "file") /\ vIn.taskArgs["file"].exists
       THEN /\ vLocals' = FileLocals(vIn.taskArgs["file"])
            /\ vPc' = "check"
            /\ UNCHANGED vRet
       ELSE vRet' = Exit(1) /\ vPc' = "done" /\ UNCHANGED vLocals
    /\ UNCHANGED <<genVars, pureVars, uidVars, fmtVars, deployVars, revokeVars, driverVars,
                   helperVars, vIn>>

\* The answer of verifySchemaExists.
VerifyCheck ==
    /\ vPc = "check"
    /\ \E o \in GetSchemaOutcomes :
          /\ vLocals' = Key("exists", verifySchemaExists(o)) @@ vLocals
          /\ IF verifySchemaExists(o)
             THEN vPc' = "details" /\ UNCHANGED vRet
             ELSE vRet' = Exit(1) /\ vPc' = "done"
    /\ UNCHANGED <<genVars, pureVars, uidVars, fmtVars, deployVars, revokeVars, driverVars,
                   helperVars, vIn>>

\* The answer of getSchemaDetails, the comparison and the return.
VerifyDetails ==
    /\ vPc = "details"
    /\ \E o \in GetSchemaOutcomes :
          /\ vLocals' = AfterDetails(vLocals, getSchemaDetails(o)).locals
          /\ vRet' = AfterDetails(vLocals, getSchemaDetails(o)).ret
    /\ vPc' = "done"
    /\ UNCHANGED <<genVars, pureVars, uidVars, fmtVars, deployVars, revokeVars, driverVars,
                   helperVars, vIn>>

NextVerify == VerifyStart \/ VerifyCheck \/ VerifyDetails

SpecVerify == InitVerify /\ [][NextVerify]_vars

\* ---------------------------------------------------------------- eas-revoke
\* The answers of eas.getAttestation: a rejection or the stored attestation;
\* revocationTime is a uint64, read as a bigint.
Attestations ==
    [uid : {ZeroHash, LogUid}, revocable : BOOLEAN, revocationTime : {0, 1000000}]

GetAttestationOutcomes ==
    {[kind |-> "throws", rec |-> Null]}
    \cup {[kind |-> "record", rec |-> a] : a \in Attestations}

RevokeTaskArgs ==
    {[schema |-> LogUid, uid |-> LogUid] @@ v : v \in {NoKey, Key("value", "1")}}

\* NETWORK_CONTRACTS[networkName]?.easContract is there and is not "0x".
Configured(network) == network \in SupportedNetworks

Guard_revokedFirst(attestation) ==
    IF attestation.uid = ZeroHash THEN "does not exist"
    ELSE IF attestation.revocationTime # 0 THEN "already revoked"
    ELSE IF ~attestation.revocable THEN "is not revocable"
    ELSE "revoke"

\* The three tests made on the fetched attestation, in their order.
Guard(attestation) ==
    IF attestation.uid = ZeroHash THEN "does not exist"
    ELSE IF ~attestation.revocable THEN "is not revocable"
    ELSE IF attestation.revocationTime # 0 THEN "already revoked"
    ELSE "revoke"

RevokeArgs(taskArgs) ==
    [schema |-> taskArgs["schema"],
     data |-> [uid |-> taskArgs["uid"],
               value |-> IF Has(taskArgs, "value") THEN taskArgs["value"] ELSE "0"]]

InitRevoke ==
    /\ GenIdle
    /\ PureIdle
    /\ UidIdle
    /\ FmtIdle
    /\ DeployIdle
    /\ VerifyIdle
    /\ DriverIdle
    /\ HelperIdle
    /\ rIn \in [taskArgs : RevokeTaskArgs, network : Networks, signer : BOOLEAN,
                chain : GetAttestationOutcomes]
    /\ rPc = "start"
    /\ rLocals = NoKey
    /\ rCalls = <<>>
    /\ rRet = Running

\* From the start of the action to the call of eas.getAttestation.
RevokeStart ==
    /\ rPc = "start"
    /\ IF ~Configured(rIn.network)
       THEN rRet' = Threw("EAS contract not configured") /\ rPc' = "done"
       ELSE IF ~rIn.signer
       THEN rRet' = Threw("no signer") /\ rPc' = "done"
       ELSE rPc' = "check" /\ UNCHANGED rRet
    /\ UNCHANGED <<genVars, pureVars, uidVars, fmtVars, deployVars, verifyVars, driverVars,
                   helperVars, rIn, rLocals, rCalls>>

\* The fetched attestation, the tests on it and the call of eas.revoke.
RevokeCheck ==
    /\ rPc = "check"
    /\ IF rIn.chain.kind = "throws"
       THEN rRet' = Threw("getAttestation") /\ rPc' = "done" /\ UNCHANGED <<rLocals, rCalls>>
       ELSE /\ rLocals' = Key("attestation", rIn.chain.rec)
            /\ IF Guard(rIn.chain.rec) = "revoke"
               THEN /\ rCalls' = Append(rCalls, RevokeArgs(rIn.taskArgs))
                    /\ \E accepted \in BOOLEAN :
                          IF accepted THEN rPc' = "sent" /\ UNCHANGED rRet
                          ELSE rRet' = Threw("revoke") /\ rPc' = "done"
               ELSE IF Guard(rIn.chain.rec) = "already revoked"
               THEN rRet' = Return(Undefined) /\ rPc' = "done" /\ UNCHANGED rCalls
               ELSE rRet' = Threw(Guard(rIn.chain.rec)) /\ rPc' = "done" /\ UNCHANGED rCalls
    /\ UNCHANGED <<genVars, pureVars, uidVars, fmtVars, deployVars, verifyVars, driverVars,
                   helperVars, rIn>>

\* The confirmation of the revoke transaction.
RevokeConfirm ==
    /\ rPc = "sent"
    /\ \E confirmed \in BOOLEAN :
          rRet' = IF confirmed THEN Return(Undefined) ELSE Threw("wait")
    /\ rPc' = "done"
    /\ UNCHANGED <<genVars, pureVars, uidVars, fmtVars, deployVars, verifyVars, driverVars,
                   helperVars, rIn, rLocals, rCalls>>

NextRevoke == RevokeStart \/ RevokeCheck \/ RevokeConfirm

SpecRevoke == InitRevoke /\ [][NextRevoke]_vars

\* ---------------------------------------------------------------- generate-eas-object
\* The whole action of the task, from its arguments to the file it writes.
\* Names and titles are sequences of characters.
DriverProps ==
    {Type(Str("string")), Type(Str("boolean")) @@ SkipReason("eas"),
     Ref(<<"#", "/", "$defs", "/", "Handled">>), Null}

\* The local definitions of the documents: one that carries the skip reason.
DriverDefs == Key("$defs", [Handled |-> Type(Str("boolean")) @@ SkipReason("eas")])

DriverTitles == {NoKey, Key("title", <<>>), Key("title", <<"A", " ", " ", "B">>)}

DriverProperties ==
    {[decl |-> <<>>, props |-> NoKey], [decl |-> <<>>, props |-> Key("properties", NoKey)]}
    \cup UNION {{[decl |-> d, props |-> Key("properties", ps)] :
                    ps \in [Range(d) -> DriverProps]} :
                d \in Decls(MaxFields)}

\* The file named by the schema argument: missing, not JSON, or a document.
DriverFiles ==
    {[exists |-> FALSE, valid |-> FALSE, decl |-> <<>>, doc |-> Null],
     [exists |-> TRUE, valid |-> FALSE, decl |-> <<>>, doc |-> Null]}
    \cup {[exists |-> TRUE, valid |-> TRUE, decl |-> p.decl, doc |-> t @@ p.props @@ DriverDefs] :
             t \in DriverTitles, p \in DriverProperties}

DriverTaskArgs ==
    {n @@ r : n \in {NoKey, Key("name", <<>>), Key("name", <<"N">>)},
              r \in {NoKey, Key("revocable", <<"T", "R", "U", "E">>),
                     Key("revocable", <<"f", "a", "l", "s", "e">>)}}

\* !inputSchema.properties || Object.keys(inputSchema.properties).length === 0
NoProperties(doc) == ~Has(doc, "properties") \/ DOMAIN doc["properties"] = {}

TitleOf(doc) == IF Has(doc, "title") THEN doc["title"] ELSE <<>>
NameOverride(taskArgs) == IF Has(taskArgs, "name") THEN taskArgs["name"] ELSE <<>>

\* !inputSchema.title && !nameOverride
NoName(doc, taskArgs) == TitleOf(doc) = <<>> /\ NameOverride(taskArgs) = <<>>

RECURSIVE DropSpaces(_)
DropSpaces(t) == IF t # <<>> /\ Head(t) = " " THEN DropSpaces(Tail(t)) ELSE t

\* schemaTitle.replace(/\s+/g, '-')
RECURSIVE ReplaceSpaces(_)
ReplaceSpaces(t) ==
    IF t = <<>> THEN <<>>
    ELSE IF Head(t) = " " THEN <<"-">> \o ReplaceSpaces(DropSpaces(Tail(t)))
    ELSE <<Head(t)>> \o ReplaceSpaces(Tail(t))

easName(doc, taskArgs) ==
    IF NameOverride(taskArgs) # <<>> THEN NameOverride(taskArgs)
    ELSE ReplaceSpaces(TitleOf(doc))

detectRevocable(properties) ==
    /\ Has(properties, "revoked")
    /\ properties["revoked"] # Null
    /\ GetSkipReason(properties["revoked"]) = "eas"

Revocable_detectionWins(doc, taskArgs) ==
    IF detectRevocable(doc["properties"]) THEN TRUE
    ELSE IF Has(taskArgs, "revocable")
    THEN LowerChars(taskArgs["revocable"]) = <<"t", "r", "u", "e">>
    ELSE FALSE

Revocable(doc, taskArgs) ==
    IF Has(taskArgs, "revocable")
    THEN LowerChars(taskArgs["revocable"]) = <<"t", "r", "u", "e">>
    ELSE detectRevocable(doc["properties"])

OutputFile(doc, taskArgs, joined) ==
    [path |-> <<"generated", easName(doc, taskArgs), "eas.json">>,
     record |-> [name |-> easName(doc, taskArgs),
                 schema |-> joined,
                 revocable |-> Revocable(doc, taskArgs)]]

InitDriver ==
    /\ GenIdle
    /\ PureIdle
    /\ UidIdle
    /\ FmtIdle
    /\ ChainIdle
    /\ HelperIdle
    /\ gIn \in [taskArgs : DriverTaskArgs, file : DriverFiles]
    /\ gOut = <<>>
    /\ gRet = Running

\* The action up to the call of buildSchemaString.
DriverStart ==
    /\ pc = "idle"
    /\ gRet = Running
    /\ IF \/ ~gIn.file.exists
          \/ ~gIn.file.valid
          \/ NoProperties(gIn.file.doc)
          \/ NoName(gIn.file.doc, gIn.taskArgs)
       THEN /\ gRet' = Exit(1)
            /\ pc' = "done"
            /\ UNCHANGED <<inputSchema, declOrder, keyOrder, schemaBaseDir>>
       ELSE /\ inputSchema' = gIn.file.doc
            /\ declOrder' = gIn.file.decl
            /\ keyOrder' = ForInKeys(gIn.file.decl)
            /\ schemaBaseDir' = "dirA"
            /\ pc' = "loop"
            /\ UNCHANGED gRet
    /\ UNCHANGED <<schemaCache, readCount, existsCount, loadLog, compiled, idx, abiFields,
                   schemaString, trail, pureVars, uidVars, fmtVars, chainVars, helperVars,
                   gIn, gOut>>

\* One iteration of the loop of buildSchemaString: reading the skip reason
\* of a property that is null is a TypeError, which ends the action.
DriverField ==
    /\ pc = "loop"
    /\ idx < Len(keyOrder)
    /\ IF inputSchema["properties"][keyOrder[idx + 1]] = Null
       THEN /\ gRet' = Threw("TypeError")
            /\ pc' = "done"
            /\ UNCHANGED <<schemaCache, readCount, existsCount, loadLog, abiFields, trail,
                           idx>>
       ELSE /\ Push(BuildEntry(World, inputSchema["properties"], keyOrder[idx + 1],
                               inputSchema, schemaBaseDir),
                    keyOrder[idx + 1])
            /\ idx' = idx + 1
            /\ UNCHANGED <<pc, gRet>>
    /\ UNCHANGED <<compiled, inputSchema, keyOrder, declOrder, schemaBaseDir, schemaString,
                   pureVars, uidVars, fmtVars, chainVars, helperVars, gIn, gOut>>

\* The end of buildSchemaString and of the action: the record is written.
DriverFinish ==
    /\ pc = "loop"
    /\ idx = Len(keyOrder)
    /\ schemaString' = JoinFields(abiFields)
    /\ gOut' = Append(gOut, OutputFile(inputSchema, gIn.taskArgs, JoinFields(abiFields)))
    /\ gRet' = Return(Undefined)
    /\ pc' = "done"
    /\ UNCHANGED <<schemaCache, readCount, existsCount, loadLog, compiled, inputSchema,
                   keyOrder, declOrder, schemaBaseDir, idx, abiFields, trail, pureVars,
                   uidVars, fmtVars, chainVars, helperVars, gIn>>

NextDriver == DriverStart \/ DriverField \/ DriverFinish

SpecDriver == InitDriver /\ [][NextDriver]_vars

\* ---------------------------------------------------------------- resolveProperty
\* The root document of the harness: a definition, and a definition that is
\* itself a reference to it.
RefRoot ==
    ("title" :> "T")
    @@ ("$defs" :> [LocalMeta |-> MetaDef,
                    Alias |-> Ref(<<"#", "/", "$defs", "/", "LocalMeta">>)
                              @@ Type(Str("integer"))])

RefTexts ==
    {<<"#", "/", "$defs", "/", "LocalMeta">>,
     <<"#", "/", "$defs", "/", "Alias">>,
     <<"#", "Local">>,
     <<"common.schema.json", "#", "/", "$defs", "/", "Proof">>,
     <<"common.schema.json", "#", "/", "$defs", "/", "Tags">>,
     <<"common.schema.json", "#", "/", "$defs", "/", "Nope">>,
     <<"broken.json", "#", "/", "$defs", "/", "Proof">>}

\* The keys a property has next to its $ref.
Siblings ==
    {NoKey,
     Type(Str("boolean")),
     SkipReason("unused"),
     Type(Str("boolean")) @@ SkipReason("unused"),
     Key("pattern", HashPatternText)}

RefProps == {Ref(t) @@ sib : t \in RefTexts, sib \in Siblings}

InitRef ==
    /\ GenIdle
    /\ PureIdle
    /\ UidIdle
    /\ FmtIdle
    /\ ChainIdle
    /\ DriverIdle
    /\ DidIdle
    /\ refIn \in [prop : RefProps, dir : BaseDirs]
    /\ refOut = Null
    /\ refPc = "input"

\* The assignments of a call whose outcome is r: out is the new refOut.
StoreResolved(r, out) ==
    /\ refOut' = out
    /\ schemaCache' = r.w.cache
    /\ readCount' = r.w.reads
    /\ existsCount' = r.w.exists
    /\ loadLog' = r.w.log

TargetOut(r) == [target |-> r.ret, result |-> Null]
ResultOut(r, out) == [out EXCEPT !.result = r.ret]

\* resolveRef(prop.$ref, currentSchema, baseDir)
ResolveTarget ==
    /\ refPc = "input"
    /\ StoreResolved(resolveRef(World, refIn.prop["$ref"], RefRoot, refIn.dir),
                     TargetOut(resolveRef(World, refIn.prop["$ref"], RefRoot, refIn.dir)))
    /\ refPc' = "target"
    /\ UNCHANGED <<pc, compiled, inputSchema, keyOrder, declOrder, schemaBaseDir, idx,
                   abiFields, schemaString, trail, pureVars, uidVars, fmtVars, chainVars,
                   driverVars, didVars, refIn>>

\* resolveProperty(prop, currentSchema, baseDir)
ResolveProp ==
    /\ refPc = "target"
    /\ StoreResolved(resolveProperty(World, refIn.prop, RefRoot, refIn.dir),
                     ResultOut(resolveProperty(World, refIn.prop, RefRoot, refIn.dir),
                               refOut))
    /\ refPc' = "done"
    /\ UNCHANGED <<pc, compiled, inputSchema, keyOrder, declOrder, schemaBaseDir, idx,
                   abiFields, schemaString, trail, pureVars, uidVars, fmtVars, chainVars,
                   driverVars, didVars, refIn>>

NextRef == ResolveTarget \/ ResolveProp

SpecRef == InitRef /\ [][NextRef]_vars

\* ---------------------------------------------------------------- canonicalizeDID
\* A DID is the sequence of its characters.
MaxDidTail == 6

DidText(name) ==
    CASE name = "did" -> <<"d", "i", "d">>
      [] name = "DID" -> <<"D", "I", "D">>
      [] name = "web" -> <<"w", "e", "b">>
      [] name = "WEB" -> <<"W", "E", "B">>
      [] name = "pkh" -> <<"p", "k", "h">>
      [] name = "PKH" -> <<"P", "K", "H">>
      [] name = "key" -> <<"k", "e", "y">>

\* The DIDs of the model: a scheme, a colon, a method and at most n further
\* characters out of colon, slash and the letter A.
DidInputs(n) ==
    {DidText(sc) \o <<":">> \o DidText(m) \o t :
        sc \in {"did", "DID"},
        m \in {"web", "WEB", "pkh", "PKH", "key"},
        t \in SeqsUpTo({":", "/", "A"}, n)}

LowerDidChar(c) ==
    CASE c = "A" -> "a" [] c = "B" -> "b" [] c = "D" -> "d" [] c = "E" -> "e"
      [] c = "H" -> "h" [] c = "I" -> "i" [] c = "K" -> "k" [] c = "P" -> "p"
      [] c = "W" -> "w" [] OTHER -> c

\* String.prototype.toLowerCase over the characters of the DIDs
LowerDid(s) == [i \in 1..Len(s) |-> LowerDidChar(s[i])]

\* Array.prototype.join(sep)
RECURSIVE JoinWith(_, _)
JoinWith(parts, sep) ==
    IF parts = <<>> THEN <<>>
    ELSE IF Len(parts) = 1 THEN parts[1]
    ELSE parts[1] \o <<sep>> \o JoinWith(Tail(parts), sep)

StartsWithDid(did) == Len(did) >= 4 /\ SubSeq(did, 1, 4) = <<"d", "i", "d", ":">>

\* The did:web case, for the host and the path segments.
CanonicalWeb(segments) ==
    <<"d", "i", "d", ":", "w", "e", "b", ":">>
    \o LowerDid(segments[1])
    \o (IF Len(segments) > 1 THEN <<"/">> \o JoinWith(Tail(segments), "/") ELSE <<>>)

\* The did:pkh case, for the five parts.
CanonicalPkh(parts) ==
    <<"d", "i", "d", ":", "p", "k", "h", ":">>
    \o parts[3] \o <<":">> \o parts[4] \o <<":">> \o LowerDid(parts[5])

PkhParts == 5

\* The switch over the method, for the parts of the DID.
ByMethod(did, parts) ==
    IF Len(parts) < 3 THEN Threw("Invalid DID format: insufficient parts")
    ELSE IF parts[2] = <<"w", "e", "b">>
    THEN Return(CanonicalWeb(Split(JoinWith(SubSeq(parts, 3, Len(parts)), ":"), "/")))
    ELSE IF parts[2] = <<"p", "k", "h">>
    THEN IF Len(parts) # PkhParts
         THEN Threw("Invalid did:pkh format: must have 5 parts")
         ELSE Return(CanonicalPkh(parts))
    ELSE Return(LowerDid(did))

canonicalizeDID(did) ==
    IF ~StartsWithDid(did) THEN Threw("Invalid DID format: must start with did:")
    ELSE ByMethod(did, Split(did, ":"))

InitDid ==
    /\ GenIdle
    /\ PureIdle
    /\ UidIdle
    /\ FmtIdle
    /\ ChainIdle
    /\ DriverIdle
    /\ RefIdle
    /\ didIn \in DidInputs(MaxDidTail)
    /\ didOut = Null
    /\ didPc = "input"

\* canonicalizeDID(did)
Canonicalize ==
    /\ didPc = "input"
    /\ didOut' = [first |-> canonicalizeDID(didIn), second |-> Running]
    /\ didPc' = "once"
    /\ UNCHANGED <<genVars, pureVars, uidVars, fmtVars, chainVars, driverVars, refVars, didIn>>

\* canonicalizeDID of the value the first call returned
CanonicalizeAgain ==
    /\ didPc = "once"
    /\ didOut.first.kind = "return"
    /\ didOut' = [didOut EXCEPT !.second = canonicalizeDID(didOut.first.value)]
    /\ didPc' = "twice"
    /\ UNCHANGED <<genVars, pureVars, uidVars, fmtVars, chainVars, driverVars, refVars, didIn>>

NextDid == Canonicalize \/ CanonicalizeAgain

SpecDid == InitDid /\ [][NextDid]_vars

\* ---------------------------------------------------------------- properties
EntryKeys == [i \in 1..Len(abiFields) |-> abiFields[i].key]
Emitted(k) == \E j \in 1..Len(abiFields) : abiFields[j].key = k
RawProperty(k) == inputSchema["properties"][k]
Processed == 1..Len(trail)

\* The keys the run kept: neither excluded by skip reason nor mapped to null.
Survives(k) ==
    \E i \in Processed :
        trail[i].key = k /\ ~trail[i].skipped /\ trail[i].abi # NullAbi

\* Place of a type name in the priority order.
Rank(t) == CHOOSE k \in 1..Len(order) : order[k] = t

\* The highest-priority member of a set of type names that meets the order.
Best(ts) ==
    CHOOSE t \in ts \cap Range(order) :
        \A u \in ts \cap Range(order) : Rank(t) <= Rank(u)

\* C1: when buildSchemaString has finished, the field names of the output
\* are exactly the declaration-order names that survived (not excluded by
\* skip reason, not mapped to null), each once and in declaration order,
\* and the schema string is their '<abiType> <name>' entries joined by ', '.
C1_DeclarationOrderKept ==
    pc = "done" =>
        /\ EntryKeys = SelectSeq(declOrder, LAMBDA k : Survives(k))
        /\ schemaString = JoinFields(abiFields)

\* C2: a field whose resolved property (the $ref target overlaid by the
\* local sibling keys) has x-oma3-skip-reason 'metadata' or 'eas' has no
\* entry in the output.
C2_SkippedNeverEmitted ==
    \A i \in Processed :
        GetSkipReason(trail[i].resolved) \in {"metadata", "eas"}
            => ~Emitted(trail[i].key)

\* C2 witness: a finished run excluded a field whose skip reason came from
\* the target of its $ref, excluded a field tagged 'eas', and emitted another.
C2_Witness ==
    /\ pc = "done"
    /\ Len(abiFields) >= 1
    /\ \E i \in Processed :
        /\ HasRef(RawProperty(trail[i].key))
        /\ ~Has(RawProperty(trail[i].key), "x-oma3-skip-reason")
        /\ GetSkipReason(trail[i].resolved) = "metadata"
        /\ ~Emitted(trail[i].key)

\* C3: a field whose resolved property has x-oma3-skip-reason 'unused' has
\* an entry in the output once its loop iteration is over, whatever its
\* other content.
C3_UnusedAlwaysEmitted ==
    \A i \in Processed :
        GetSkipReason(trail[i].resolved) = "unused" => Emitted(trail[i].key)

\* C4: a property {type: 'string', pattern: '^0x[a-fA-F0-9]{64}$'} without
\* x-oma3-abi, of a field named hash, maps to 'bytes32'.
C4_HashPatternIsBytes32 ==
    (/\ pPc = "mapped"
     /\ pName = "hash"
     /\ pProp = Type(Str("string")) @@ Key("pattern", HashPatternText))
        => pAbi = "bytes32"

C6_PurposeIsString ==
    (pPc = "mapped" /\ pName = "purpose") => pAbi = "string"

\* C6 witness: a purpose field that is an array and carries the bytes32
\* override was mapped to string.
C6_Witness ==
    /\ pPc = "mapped"
    /\ pName = "purpose"
    /\ pEff = "array"
    /\ GetXAbi(pProp) = "bytes32"
    /\ pAbi = "string"

IsTypeArray(p) == Has(p, "type") /\ p["type"].arr /\ Len(p["type"].v) > 0

\* C7 as stated: for a type array, resolveJsonType returns the first entry
\* that is not 'null', lowercased, and the first element when all are 'null'.
C7_FirstNonNullWins ==
    (pPc # "input" /\ IsTypeArray(pProp))
        => pEff = FirstNonNullOrFirst(MapLower(pProp["type"].v))

\* C7 amended: for a type array, resolveJsonType returns the lowercased
\* entry of highest priority in object > array > string > integer > number
\* > boolean, and the lowercased first element when no entry is in that
\* list (so 'null' for an all-null array).
C7_PriorityEntryWins ==
    (pPc # "input" /\ IsTypeArray(pProp))
        => LET ts == MapLower(pProp["type"].v)
           IN  IF Range(ts) \cap Range(order) # {}
               THEN pEff = Best(Range(ts))
               ELSE pEff = ts[1]

\* C7 witness: the union [integer, string] resolved to string, the later
\* but higher-priority entry.
C7_Witness ==
    /\ pPc = "typed"
    /\ pProp = Type(Arr(<<"integer", "string">>))
    /\ pEff = "string"

\* The candidate types of a property's branches, as a set: each branch's
\* own type(s) and the types inside its then / else properties, lowercased.
Candidates(p) ==
    UNION {UNION {{toLowerCase(t) : t \in Range(BranchTypes(p[kw][i]))} :
                     i \in 1..Len(p[kw])} :
           kw \in {"oneOf", "anyOf", "allOf"} \cap DOMAIN p}

\* C8: for a property without a direct type, when a candidate type of its
\* oneOf/anyOf/allOf branches is among object, array, string, integer,
\* number, boolean, resolveJsonType returns the highest-priority such
\* candidate, whatever the order of the branches and the keyword they are
\* under.
C8_PriorityIsOrderIndependent ==
    (/\ pPc # "input"
     /\ ~Has(pProp, "type")
     /\ Candidates(pProp) \cap Range(order) # {})
        => pEff = Best(Candidates(pProp))

\* C8 witness: candidates string then object, under two keywords, resolved
\* to object.
C8_Witness ==
    /\ pPc = "typed"
    /\ pProp = Key("oneOf", <<Type(Str("string"))>>)
               @@ Key("allOf", <<Type(Str("object"))>>)
    /\ pEff = "object"

\* C9: a field whose $ref could not be resolved has no entry in the output.
C9_FailedRefDropped ==
    \A i \in Processed : trail[i].failedRef => ~Emitted(trail[i].key)

\* C10 as stated: no relative path is read from disk more than once.
C10_ReadAtMostOnce ==
    \A p \in RelPaths : readCount[p] <= 1

\* C10 amended: each relative path is read and parsed successfully at most
\* once: once its document is in the cache it stays there and the path is
\* never read again (a path whose content does not parse is read again by
\* every call).
C10_NoReadOnceCached ==
    [][\A p \in RelPaths :
          p \in DOMAIN schemaCache
              => (p \in DOMAIN schemaCache' /\ readCount'[p] = readCount[p])]_vars

\* C10 witness: two fields referenced the same external file, which was
\* read once and is cached.
C10_Witness ==
    /\ Len(trail) = 2
    /\ \A i \in Processed :
          /\ HasRef(RawProperty(trail[i].key))
          /\ RawProperty(trail[i].key)["$ref"][1] = "common.schema.json"
    /\ "common.schema.json" \in DOMAIN schemaCache
    /\ readCount["common.schema.json"] = 1

Loads == 1..Len(loadLog)

\* C11: once a call of loadExternalSchema for a relative path has returned a
\* parsed document, every later call for the same path returns that same
\* document and makes no file-existence check and no file read; the call
\* that first returned the document read the file once, so that the fields
\* referencing the file from then on cause exactly that one read.
C11_CachedLoadTouchesNoDisk ==
    /\ \A i, j \in Loads :
          (i < j /\ loadLog[i].path = loadLog[j].path /\ loadLog[i].ret # Null)
              => /\ loadLog[j].ret = loadLog[i].ret
                 /\ loadLog[j].reads = 0
                 /\ loadLog[j].checks = 0
    /\ \A i \in Loads :
          (/\ loadLog[i].ret # Null
           /\ \A h \in 1..(i-1) :
                 loadLog[h].path = loadLog[i].path => loadLog[h].ret = Null)
              => loadLog[i].reads = 1

\* C11 witness: two calls for the same path, the first of which read the
\* file and the second of which was served the same document.
C11_Witness ==
    \E i, j \in Loads :
        /\ i < j
        /\ loadLog[i].path = loadLog[j].path
        /\ loadLog[i].ret # Null
        /\ loadLog[i].reads = 1
        /\ loadLog[j].ret = loadLog[i].ret
        /\ loadLog[j].reads = 0

\* Two argument lists differ in exactly one of schema, resolverAddress and
\* revocable.
DifferInOne(a, b) ==
    Cardinality({f \in {"schema", "resolverAddress", "revocable"} : a[f] # b[f]}) = 1

C13_OneDifferenceChangesUid ==
    (uidPc = "done" /\ DifferInOne(uidIn[1], uidIn[2]))
        => /\ uidOut.eas[1] # uidOut.eas[2]
           /\ uidOut.bas[1] # uidOut.bas[2]

\* C14: easTools.calculateSchemaUID of the documented example schema, the
\* zero resolver address and revocable = true is
\* 0xe97c0fcc6c37e9f782fd9917e3fa6d22ca1b52d8d936002be4babb55e82dadab.
C14_ExampleUid ==
    \A k \in 1..2 :
        (/\ uidPc \in {"eas", "done"}
         /\ uidIn[k] = ExampleArgs)
            => uidOut.eas[k] = ExampleUID

\* C14 witness: the UID of the documented example has been calculated.
C14_Witness ==
    /\ uidPc = "done"
    /\ uidIn[1] = ExampleArgs
    /\ Len(uidOut.eas[1]) = 66

\* C15: formatSchemaUID (of easTools and of basTools) is idempotent; it
\* returns '' for '', its argument for an argument that starts with '0x',
\* and otherwise '0x' followed by its argument.
C15_FormatIdempotent ==
    /\ fmtPc \in {"once", "twice"} =>
          \A r \in {fmtOut.eas, fmtOut.bas} :
              /\ fmtIn = <<>> => r = <<>>
              /\ (Len(fmtIn) >= 2 /\ SubSeq(fmtIn, 1, 2) = <<"0", "x">>) => r = fmtIn
              /\ (fmtIn # <<>> /\ ~(Len(fmtIn) >= 2 /\ SubSeq(fmtIn, 1, 2) = <<"0", "x">>))
                    => (Len(r) = Len(fmtIn) + 2 /\ SubSeq(r, 1, 2) = <<"0", "x">>
                        /\ SubSeq(r, 3, Len(r)) = fmtIn)
    /\ fmtPc = "twice" =>
          (fmtOut.easTwice = fmtOut.eas /\ fmtOut.basTwice = fmtOut.bas)

\* C15 witness: an argument without the prefix got it once, and the second
\* application left the result alone.
C15_Witness ==
    /\ fmtPc = "twice"
    /\ fmtIn = <<"0", "X", "a">>
    /\ fmtOut.eas = <<"0", "x", "0", "X", "a">>
    /\ fmtOut.easTwice = fmtOut.eas

\* C16: when the pre-check of deploy-eas-schema reports that the schema
\* exists, the action returns the formatted UID it computed from the file,
\* calls register not once and writes no deployment file.
C16_ExistingSchemaOnlyReturnsUid ==
    (Has(dLocals, "schemaExists") /\ dLocals["schemaExists"])
        => /\ dPc = "done"
           /\ dRet.kind = "return"
           /\ dRet.value =
                 formatSchemaUID(
                     calculateSchemaUID(dIn.taskArgs["file"].easSchema["schema"],
                                        dLocals["resolverAddress"],
                                        dIn.taskArgs["file"].easSchema["revocable"]))
           /\ StartsWith0x(dRet.value)
           /\ dCalls = <<>>
           /\ dFiles = <<>>

C16_Witness ==
    /\ dPc = "done"
    /\ Has(dLocals, "schemaExists")
    /\ dLocals["schemaExists"]
    /\ dRet.kind = "return"
    /\ dCalls = <<>>

CliResolver == IF Has(dIn.taskArgs, "resolver") THEN dIn.taskArgs["resolver"] ELSE ZERO_ADDRESS

\* C17: deploy-eas-schema computes the UID and calls register with the
\* resolver given as the resolver argument, or with the zero address when
\* that argument is omitted.
C17_ResolverArgumentUsed ==
    /\ dPc = "precheck"
          => dLocals["expectedSchemaUID"] =
                calculateSchemaUID(dIn.taskArgs["file"].easSchema["schema"], CliResolver,
                                   dIn.taskArgs["file"].easSchema["revocable"])
    /\ \A i \in 1..Len(dCalls) : dCalls[i].resolverAddress = CliResolver

\* C18: verify-eas-schema returns true whenever verifySchemaExists reported
\* the schema as existing, whether or not the on-chain schema string, resolver
\* and revocable flag equal those of the local file, and exits with status 1
\* whenever verifySchemaExists reported that it does not exist.
C18_ExistingVerifiesDespiteMismatch ==
    /\ (Has(vLocals, "exists") /\ vLocals["exists"] /\ vPc = "done")
          => vRet.kind = "return" /\ vRet.value = TRUE
    /\ (Has(vLocals, "exists") /\ ~vLocals["exists"])
          => vPc = "done" /\ vRet.kind = "exit" /\ vRet.value = 1

C18_Witness ==
    /\ vPc = "done"
    /\ Has(vLocals, "matches")
    /\ ~vLocals["matches"].schema
    /\ ~vLocals["matches"].resolver
    /\ ~vLocals["matches"].revocable
    /\ vRet.kind = "return"

Fetched == Has(rLocals, "attestation")

\* C19: eas-revoke calls eas.revoke only for a fetched attestation whose uid
\* is not the zero hash, that is revocable and whose revocationTime is 0; an
\* attestation with the zero hash makes it throw "does not exist", a
\* non-revocable one "is not revocable" whether or not it was revoked, and a
\* revocable one already revoked makes it return without a call of eas.revoke.
C19_RevokeGuards ==
    /\ rCalls # <<>>
          => /\ Fetched
             /\ Len(rCalls) = 1
             /\ rLocals["attestation"].uid # ZeroHash
             /\ rLocals["attestation"].revocable
             /\ rLocals["attestation"].revocationTime = 0
    /\ (Fetched /\ rLocals["attestation"].uid = ZeroHash)
          => rRet = Threw("does not exist") /\ rCalls = <<>>
    /\ (Fetched /\ rLocals["attestation"].uid # ZeroHash
               /\ ~rLocals["attestation"].revocable)
          => rRet = Threw("is not revocable") /\ rCalls = <<>>
    /\ (Fetched /\ rLocals["attestation"].uid # ZeroHash
               /\ rLocals["attestation"].revocable
               /\ rLocals["attestation"].revocationTime # 0)
          => rRet = Return(Undefined) /\ rCalls = <<>> /\ rPc = "done"

C19_Witness ==
    /\ Fetched
    /\ rPc = "done"
    /\ ~rLocals["attestation"].revocable
    /\ rLocals["attestation"].revocationTime # 0
    /\ rLocals["attestation"].uid # ZeroHash
    /\ rRet = Threw("is not revocable")

Parsed == gIn # Null /\ gIn.file.exists /\ gIn.file.valid

\* C20: with a readable, parseable root document, generate-eas-object writes
\* no record and exits with a non-zero status when the document has absent
\* or empty top-level properties, or neither a title nor a name override; in every
\* other case it writes exactly one record {name, schema, revocable}.
C20_FatalOrOneRecord ==
    (Parsed /\ pc = "done")
        => IF NoProperties(gIn.file.doc) \/ NoName(gIn.file.doc, gIn.taskArgs)
           THEN gOut = <<>> /\ gRet.kind = "exit" /\ gRet.value # 0
           ELSE /\ Len(gOut) = 1
                /\ DOMAIN gOut[1].record = {"name", "schema", "revocable"}

\* The word true in any mix of upper and lower case.
SpellsTrue(s) ==
    /\ Len(s) = 4
    /\ s[1] \in {"t", "T"}
    /\ s[2] \in {"r", "R"}
    /\ s[3] \in {"u", "U"}
    /\ s[4] \in {"e", "E"}

\* The root document declares a field revoked that itself carries the skip
\* reason eas.
RevokedCarriesEas ==
    /\ Has(inputSchema["properties"], "revoked")
    /\ inputSchema["properties"]["revoked"] # Null
    /\ Has(inputSchema["properties"]["revoked"], "x-oma3-skip-reason")
    /\ inputSchema["properties"]["revoked"]["x-oma3-skip-reason"] = "eas"

\* C21: the revocable flag of the record written by generate-eas-object is,
\* with a revocable argument, whether the argument spells true in any case,
\* whatever the schema holds; without one it is true exactly when the schema
\* has a field revoked carrying the skip reason eas, and that field is one
\* the builder has excluded from the schema string.
C21_RevocableFlag ==
    gOut # <<>>
        => /\ Has(gIn.taskArgs, "revocable")
                 => gOut[1].record.revocable = SpellsTrue(gIn.taskArgs["revocable"])
           /\ ~Has(gIn.taskArgs, "revocable")
                 => gOut[1].record.revocable = RevokedCarriesEas
           /\ RevokedCarriesEas
                 => /\ \E i \in 1..Len(trail) : trail[i].key = "revoked" /\ trail[i].skipped
                    /\ \A i \in 1..Len(abiFields) : abiFields[i].key # "revoked"

C21_Witness ==
    /\ gOut # <<>>
    /\ RevokedCarriesEas
    /\ ~Has(gIn.taskArgs, "revocable")
    /\ gOut[1].record.revocable

LocalKeys == DOMAIN refIn.prop \ {"$ref"}

\* The result holds the keys of the target and the sibling keys, a sibling
\* key with the value of the property, any other key with that of the target.
Overlaid ==
    /\ DOMAIN refOut.result = DOMAIN refOut.target \cup LocalKeys
    /\ \A k \in LocalKeys : refOut.result[k] = refIn.prop[k]
    /\ \A k \in DOMAIN refOut.target \ LocalKeys : refOut.result[k] = refOut.target[k]

\* C22, as stated: the property returned by resolveProperty for a $ref that
\* resolves is the target overlaid by the sibling keys, and it has no $ref
\* key.
C22_OverlaidWithoutRef ==
    (refPc = "done" /\ refOut.target # Null)
        => Overlaid /\ ~Has(refOut.result, "$ref")

\* C22, amended: the property returned by resolveProperty for a $ref that
\* resolves is the target overlaid by the sibling keys; the $ref of the
\* property itself is dropped, so that the result has a $ref key exactly
\* when the target has one, and then it is the target's.
C22_OverlaidOwnRefDropped ==
    (refPc = "done" /\ refOut.target # Null)
        => /\ Overlaid
           /\ Has(refOut.result, "$ref") <=> Has(refOut.target, "$ref")
           /\ Has(refOut.result, "$ref")
                 => refOut.result["$ref"] = refOut.target["$ref"]

C22_Witness ==
    /\ refPc = "done"
    /\ refOut.target # Null
    /\ Has(refOut.target, "type")
    /\ Has(refIn.prop, "type")
    /\ refOut.target["type"] # refIn.prop["type"]
    /\ refOut.result["type"] = refIn.prop["type"]

\* The type names of the scalar table.
ScalarTypes == {"string", "integer", "number", "boolean", "object"}

\* The builder keeps a field whose mapped type is neither null nor empty.
Kept(abi) == abi # NullAbi /\ abi # "" /\ abi # Undefined

FallbackCase == pPc = "mapped" /\ pEff \notin (ScalarTypes \cup {"array"})

\* C23 as stated: a non-array field whose effective type is undefined or
\* none of string, integer, number, boolean, object maps to 'string'.
C23_FallbackIsString == FallbackCase => pAbi = "string"

\* C23, amended: such a field maps to 'string' and is kept, unless it
\* carries the ABI hint 'bytes32' and is not named 'purpose': then it maps
\* to 'bytes32' and is kept.  No non-array field maps to null.
C23_FallbackNeverDrops ==
    /\ FallbackCase =>
         pAbi = (IF pName # "purpose" /\ GetXAbi(pProp) = "bytes32"
                 THEN "bytes32" ELSE "string")
    /\ (pPc = "mapped" /\ pEff # "array") => Kept(pAbi)

C23_Witness ==
    /\ pPc = "mapped"
    /\ pName = "hash"
    /\ pEff = Undefined
    /\ GetXAbi(pProp) = Undefined
    /\ pAbi = "string"

\* The items of the array property pProp after the resolution of their $ref.
ResolvedItems ==
    IF HasRef(pProp["items"])
    THEN resolveProperty(World, pProp["items"], PureRoot, "dirA").ret
    ELSE pProp["items"]

ArrayCase == pPc = "mapped" /\ pName # "purpose" /\ pEff = "array"

\* C24: an array property whose item has an effective type of the scalar
\* table maps to the scalar-table mapping of the item's type and pattern
\* followed by '[]'; without an item type, or with an item type outside
\* the table, it maps to null.
C24_ArrayOfScalarTable ==
    ArrayCase =>
        IF Has(pProp, "items") /\ ItemType(ResolvedItems) \in ScalarTypes
        THEN pAbi = ScalarTable(ItemType(ResolvedItems), GetPattern(ResolvedItems)) \o "[]"
        ELSE pAbi = NullAbi

\* The array mapping the code makes: the item's pattern plays no part.
C24_ArrayIgnoresPattern ==
    ArrayCase =>
        IF Has(pProp, "items") /\ ItemType(ResolvedItems) \in ScalarTypes
        THEN pAbi = ScalarTable(ItemType(ResolvedItems), <<>>) \o "[]"
        ELSE pAbi = NullAbi

C24_HashItems ==
    /\ ArrayCase
    /\ Has(pProp, "items")
    /\ ItemType(ResolvedItems) = "string"
    /\ TestHexHash(GetPattern(ResolvedItems))
    /\ pAbi = "string[]"

\* The calls of loadExternalSchema the step makes.
NewLoads == (Len(loadLog) + 1)..Len(loadLog')

ParsedDocs(p) == {File(Resolve(d, p)).doc : d \in {b \in BaseDirs : File(Resolve(b, p)).valid}}

\* A call that fails returns null after trying the disk, and a call for a
\* path that no earlier call loaded tries the disk; the cache holds parsed
\* documents only.
FailuresNotCached ==
    /\ \A i \in Loads :
          (\A h \in 1..(i-1) : loadLog[h].path = loadLog[i].path => loadLog[h].ret = Null)
              => loadLog[i].checks = 1
    /\ \A i \in Loads :
          loadLog[i].ret = Null
              => /\ loadLog[i].checks = 1
                 /\ loadLog[i].reads =
                       (IF File(Resolve(loadLog[i].dir, loadLog[i].path)).exists THEN 1 ELSE 0)
    /\ \A p \in DOMAIN schemaCache : schemaCache[p] \in ParsedDocs(p)

\* A step whose calls all fail leaves the cache as it is, and no step
\* replaces or removes an entry of the cache.
CacheOnlyGrows ==
    /\ (\A i \in NewLoads : loadLog'[i].ret = Null) => schemaCache' = schemaCache
    /\ \A p \in DOMAIN schemaCache :
          p \in DOMAIN schemaCache' /\ schemaCache'[p] = schemaCache[p]

\* C25: a failing call of loadExternalSchema returns null and leaves the
\* cache unchanged, so that a later call for the same path tries the disk
\* again; the cache holds successfully parsed documents only, and an entry
\* once stored is never replaced or removed.
C25_FailuresRetriedCacheStable == []FailuresNotCached /\ [][CacheOnlyGrows]_vars

\* C25 witness: a call for a file that is not valid JSON failed after
\* reading it, a later call for the same path read it again and failed
\* again, and the cache has no entry for the path.
C25_Witness ==
    \E i, j \in Loads :
        /\ i < j
        /\ loadLog[i].path = loadLog[j].path
        /\ loadLog[i].dir = loadLog[j].dir
        /\ loadLog[i].ret = Null /\ loadLog[i].reads = 1
        /\ loadLog[j].ret = Null /\ loadLog[j].reads = 1
        /\ loadLog[i].path \notin DOMAIN schemaCache

\* C30: a call loadExternalSchema(p, d) that returns a document returns
\* the document parsed from the file at resolve(d, p), also when an earlier
\* call used the same p with another base directory.
C30_LoadsFromResolvedPath ==
    \A i \in Loads :
        loadLog[i].ret # Null
            => loadLog[i].ret = File(Resolve(loadLog[i].dir, loadLog[i].path)).doc

\* The case of C30: the second of two calls for one relative path with
\* different base directories is served the first directory's document.
C30_StaleAcrossDirs ==
    \E i, j \in Loads :
        /\ i < j
        /\ loadLog[i].path = loadLog[j].path
        /\ loadLog[i].dir # loadLog[j].dir
        /\ loadLog[j].ret = File(Resolve(loadLog[i].dir, loadLog[i].path)).doc
        /\ loadLog[j].ret # File(Resolve(loadLog[j].dir, loadLog[j].path)).doc

\* register has returned and the transaction has been handled.
Registered == Has(dLocals, "checks")

SomeCheckTrue == \E i \in 1..Len(dLocals["checks"]) : dLocals["checks"][i].ok

\* The checks after the registration: at most Retries + 1, none after a
\* success; the file is written and the UID returned exactly when a check
\* answered true, and the task exits with 1 without a file otherwise.
ChecksBounded ==
    Registered =>
        /\ Len(dLocals["checks"]) <= Retries + 1
        /\ \A i \in 1..(Len(dLocals["checks"]) - 1) : ~dLocals["checks"][i].ok
        /\ dPc = "verify" => ~SomeCheckTrue /\ dFiles = <<>> /\ dRet = Running
        /\ dPc = "done" =>
              /\ Len(dLocals["checks"]) >= 1
              /\ IF SomeCheckTrue
                 THEN /\ dRet = Return(formatSchemaUID(dLocals["verificationUID"]))
                      /\ Len(dFiles) = 1
                 ELSE /\ dRet = Exit(1)
                      /\ dFiles = <<>>
                      /\ Len(dLocals["checks"]) = Retries + 1

LocalUID ==
    calculateSchemaUID(dIn.taskArgs["file"].easSchema["schema"],
                       ResolverOf(dIn.taskArgs["file"].easSchema),
                       dIn.taskArgs["file"].easSchema["revocable"])

\* The receipt that tx.wait() yielded or, when it threw, the provider.
Obtained(tx) ==
    IF tx.waited.kind = "receipt" THEN tx.waited.receipt
    ELSE IF tx.asked.kind = "receipt" THEN tx.asked.receipt
    ELSE Null

ReceiptUID(tx) ==
    IF Obtained(tx) # Null /\ Len(Obtained(tx).logs) >= 1
       /\ Len(Obtained(tx).logs[1].topics) >= 2
    THEN Obtained(tx).logs[1].topics[2]
    ELSE LocalUID

\* C27: the UID that is verified, written to the deployment file and
\* returned is receipt.logs[0].topics[1] when a receipt was obtained, from
\* tx.wait() or from the provider when wait threw, whose first log has at
\* least two topics; in every other case, a failure to extract the hash of
\* the transaction included, it is the UID calculated before registration.
C27_UidFromReceiptOrLocal ==
    Registered =>
        /\ dLocals["verificationUID"] = ReceiptUID(dLocals["tx"])
        /\ \A i \in 1..Len(dLocals["checks"]) :
              dLocals["checks"][i].uid = ReceiptUID(dLocals["tx"])
        /\ \A i \in 1..Len(dFiles) :
              dFiles[i].content.uid = formatSchemaUID(ReceiptUID(dLocals["tx"]))
        /\ dRet.kind = "return" => dRet.value = formatSchemaUID(ReceiptUID(dLocals["tx"]))

\* C27 witness: tx.wait() threw, the provider's receipt carries the UID in
\* the second topic of its first log, and that UID was verified, written
\* and returned.
C27_Witness ==
    /\ Registered
    /\ dLocals["tx"].waited.kind = "throws"
    /\ dLocals["tx"].asked.kind = "receipt"
    /\ HasUidTopic(dLocals["tx"].asked.receipt)
    /\ LocalUID # LogUid
    /\ dRet = Return(formatSchemaUID(LogUid))
    /\ Len(dFiles) = 1
    /\ dFiles[1].content.uid = formatSchemaUID(LogUid)

\* C28: the delay before the first verification is the supplied --wait
\* value in seconds whenever that value parses as a non-negative integer,
\* 0 included; it is the default of 5 seconds only when the option is
\* absent or its value does not parse.
C28_DelayIsWaitArgument ==
    Registered =>
        dLocals["delayMs"] =
            (IF Has(dIn.taskArgs, "wait") /\ ~parseInt(dIn.taskArgs["wait"]).nan
                /\ parseInt(dIn.taskArgs["wait"]).n >= 0
             THEN parseInt(dIn.taskArgs["wait"]).n * MsPerSecond
             ELSE DefaultWait * MsPerSecond)

\* The delay the code makes: a --wait of 0 gives the default as well.
C28_ZeroWaitsDefault ==
    Registered =>
        dLocals["delayMs"] =
            (IF Has(dIn.taskArgs, "wait") /\ ~parseInt(dIn.taskArgs["wait"]).nan
                /\ parseInt(dIn.taskArgs["wait"]).n > 0
             THEN parseInt(dIn.taskArgs["wait"]).n * MsPerSecond
             ELSE DefaultWait * MsPerSecond)

C28_ZeroWait ==
    /\ Registered
    /\ Has(dIn.taskArgs, "wait")
    /\ dIn.taskArgs["wait"] = <<"0">>
    /\ dLocals["delayMs"] = DefaultWait * MsPerSecond

\* C29: canonicalizeDID is idempotent: when it returns c for a DID, it
\* returns c for c as well, without raising.
C29_CanonicalizeIdempotent ==
    didPc = "twice" => didOut.second = Return(didOut.first.value)

\* What holds in the code: a second call that returns, returns the same
\* value; it raises for the lowercased form of a DID whose method is
\* spelled PKH and that does not have five parts.
C29_IdempotentUnlessRaises ==
    didPc = "twice" =>
        \/ didOut.second = Return(didOut.first.value)
        \/ /\ didOut.second.kind = "throw"
           /\ Split(didIn, ":")[2] = <<"P", "K", "H">>
           /\ Len(Split(didIn, ":")) # PkhParts

C29_SecondCallRaises ==
    /\ didPc = "twice"
    /\ didOut.first.kind = "return"
    /\ didOut.second.kind = "throw"
====
